---------------------------- MODULE Spec2Model ----------------------------
(***************************************************************************)
(* A model of the ios-lldb DAP adapter: the DAP session loop (main.rs),    *)
(* the Backend (backend.rs), the GDB remote serial protocol client         *)
(* (gdb_remote.rs) and the address translation of symbols.rs.              *)
(*                                                                         *)
(* Bytes are one-character strings and byte streams are sequences of       *)
(* them.  The 64-bit quantities of the program (i64 thread ids, u64        *)
(* addresses) are modelled with WordBits bits.                             *)
(***************************************************************************)
EXTENDS Integers, Sequences, FiniteSets, TLC

\* Width, in bits, that stands for the program's 64-bit integers.
WordBits == 16

\* Number of DAP messages the IDE writes to stdin in one run.
MaxRequests == 3

(***************************************************************************)
(* Option values: None is the empty sequence, Some(v) is <<v>>.            *)
(***************************************************************************)
None == <<>>
Some(v) == <<v>>
IsSome(o) == o # <<>>
Unwrap(o) == o[1]

(***************************************************************************)
(* Integer widths.                                                         *)
(***************************************************************************)
Pow2(n) == 2 ^ n
IMax == Pow2(WordBits - 1) - 1
IMin == 0 - Pow2(WordBits - 1)
UMax == Pow2(WordBits) - 1
\* u64 wrapping arithmetic (wrapping_add / wrapping_sub / `as u64`).
WrapU(x) == x % Pow2(WordBits)
\* `as i64` of a value, and i64 wrapping arithmetic of release builds.
WrapI(x) == LET m == x % Pow2(WordBits) IN IF m > IMax THEN m - Pow2(WordBits) ELSE m

(***************************************************************************)
(* Bytes.                                                                  *)
(***************************************************************************)
AsciiTable ==
  <<" ", "!", "#", "$", "%", "&", "'", "(", ")", "*", "+", ",", "-", ".", "/",
    "0", "1", "2", "3", "4", "5", "6", "7", "8", "9", ":", ";", "<", "=", ">",
    "?", "@", "A", "B", "C", "D", "E", "F", "G", "H", "I", "J", "K", "L", "M",
    "N", "O", "P", "Q", "R", "S", "T", "U", "V", "W", "X", "Y", "Z", "[", "]",
    "^", "_", "a", "b", "c", "d", "e", "f", "g", "h", "i", "j", "k", "l",
    "m", "n", "o", "p", "q", "r", "s", "t", "u", "v", "w", "x", "y", "z", "{",
    "|", "}", "~">>

Chars == {AsciiTable[i] : i \in 1..Len(AsciiTable)}

\* The ASCII code of a byte (the table leaves out the double quote, 34,
\* the backslash, 92, and the backquote, 96).
OrdTable ==
  [c \in Chars |->
     LET i == CHOOSE k \in 1..Len(AsciiTable) : AsciiTable[k] = c
     IN  IF i <= 2 THEN i + 31 ELSE IF i <= 59 THEN i + 32
         ELSE IF i <= 62 THEN i + 33 ELSE i + 34]

Ord(c) == OrdTable[c]

HexDigits == <<"0", "1", "2", "3", "4", "5", "6", "7", "8", "9",
               "a", "b", "c", "d", "e", "f">>

\* The value of a hexadecimal digit of either case, -1 for any other byte.
HexVal(c) ==
  CASE c \in {"0", "1", "2", "3", "4", "5", "6", "7", "8", "9"} -> Ord(c) - 48
    [] c \in {"a", "b", "c", "d", "e", "f"} -> Ord(c) - 87
    [] c \in {"A", "B", "C", "D", "E", "F"} -> Ord(c) - 55
    [] OTHER -> -1

RECURSIVE HexAcc(_, _, _)
\* Digits of s accumulated into acc; -1 on a byte that is no digit or when the
\* value passes max.
HexAcc(s, acc, max) ==
  IF s = <<>> THEN acc
  ELSE IF HexVal(s[1]) < 0 THEN -1
  ELSE IF acc * 16 + HexVal(s[1]) > max THEN -1
  ELSE HexAcc(Tail(s), acc * 16 + HexVal(s[1]), max)

\* uN::from_str_radix(s, 16): the value, or -1 for Err.  A leading "+" is
\* accepted; an empty digit string is an error.
from_str_radix(s, max) ==
  LET digits == IF s # <<>> /\ s[1] = "+" THEN Tail(s) ELSE s
  IN  IF digits = <<>> THEN -1 ELSE HexAcc(digits, 0, max)

RECURSIVE ByteSum(_)
ByteSum(s) == IF s = <<>> THEN 0 ELSE (Ord(s[1]) + ByteSum(Tail(s))) % 256

\* payload.bytes().fold(0u8, wrapping_add)
Checksum(payload) == ByteSum(payload)

\* format!("{:02x}", checksum)
Hex2(n) == <<HexDigits[(n \div 16) + 1], HexDigits[(n % 16) + 1]>>

RECURSIVE HexDigitsOf(_)
HexDigitsOf(n) ==
  IF n < 16 THEN <<HexDigits[n + 1]>>
  ELSE HexDigitsOf(n \div 16) \o <<HexDigits[(n % 16) + 1]>>

\* format!("{address:x}")
FormatHex(n) == HexDigitsOf(n)

\* The framed packet send_packet writes: "$" payload "#" hh.
Frame(payload) == <<"$">> \o payload \o <<"#">> \o Hex2(Checksum(payload))

StartsWith(s, prefix) ==
  /\ Len(s) >= Len(prefix)
  /\ SubSeq(s, 1, Len(prefix)) = prefix

\* The first index i >= from with s[i] = c, or 0.
IndexFrom(s, c, from) ==
  LET First(hits) == IF hits = {} THEN 0 ELSE CHOOSE i \in hits : \A j \in hits : i <= j
  IN  First({i \in from..Len(s) : s[i] = c})


\* The text of a byte sequence (String::from_utf8_lossy on ASCII bytes).
RECURSIVE Str(_)
Str(s) == IF s = <<>> THEN "" ELSE s[1] \o Str(Tail(s))

\* str::contains
Contains(s, sub) ==
  \E i \in 1..(Len(s) + 1) :
     /\ i + Len(sub) - 1 <= Len(s)
     /\ SubSeq(s, i, i + Len(sub) - 1) = sub

RECURSIVE Split(_, _)
\* str::split(sep): the parts between the separators (one more than the
\* number of separators).
Split(s, sep) ==
  LET At(i) == IF i = 0 THEN <<s>>
               ELSE <<SubSeq(s, 1, i - 1)>> \o Split(SubSeq(s, i + 1, Len(s)), sep)
  IN  At(IndexFrom(s, sep, 1))

(***************************************************************************)
(* gdb_remote.rs: errors.                                                  *)
(***************************************************************************)
\* An io::Error: a read or write that timed out, a refused connection.
ErrIo == [kind |-> "Io", text |-> <<"timed out">>]
ErrRefused == [kind |-> "Io", text |-> <<"Connection refused">>]
ErrRemote(payload) == [kind |-> "Remote", text |-> payload]
ErrBadChecksum == [kind |-> "BadChecksum", text |-> <<>>]
ErrUnexpectedReply(byte) == [kind |-> "UnexpectedReply", text |-> <<byte>>]

\* The #[error(...)] text of a GdbRemoteError (err.to_string()).
ErrorText(e) ==
  CASE e.kind = "Io" -> "I/O: " \o Str(e.text)
    [] e.kind = "Remote" -> "remote rejected packet: " \o Str(e.text)
    [] e.kind = "BadChecksum" -> "invalid packet checksum"
    [] e.kind = "UnexpectedReply" ->
         "unexpected reply: expected ack '+', got '" \o Str(e.text) \o "'"

(***************************************************************************)
(* gdb_remote.rs: read_packet.  `sock` holds the bytes that reach the      *)
(* socket before the 200 ms read timeout; a read past its end times out.   *)
(* The result holds the bytes left unread and the number of "+" written.   *)
(***************************************************************************)
ReadFail(e) == [ok |-> FALSE, err |-> e, payload |-> <<>>, rest |-> <<>>, acks |-> 0]

read_packet(sock, no_ack_mode) ==
  LET Checked(data, sent, rest) ==
        IF sent < 0 \/ sent # Checksum(data)
        THEN [ok |-> FALSE, err |-> ErrBadChecksum, payload |-> <<>>,
              rest |-> rest, acks |-> 0]
        ELSE [ok |-> TRUE, err |-> ErrIo, payload |-> data, rest |-> rest,
              acks |-> IF no_ack_mode THEN 0 ELSE 1]
      Framed(dollar, hash) ==
        IF dollar = 0 \/ hash = 0 \/ Len(sock) < hash + 2 THEN ReadFail(ErrIo)
        ELSE Checked(SubSeq(sock, dollar + 1, hash - 1),
                     from_str_radix(SubSeq(sock, hash + 1, hash + 2), 255),
                     SubSeq(sock, hash + 3, Len(sock)))
      Started(dollar) ==
        Framed(dollar, IF dollar = 0 THEN 0 ELSE IndexFrom(sock, "#", dollar + 1))
  IN  Started(IndexFrom(sock, "$", 1))

(***************************************************************************)
(* gdb_remote.rs: send_packet.  `sock` holds the unread bytes followed by  *)
(* what the stub sends in time after the packet was written.  reply is     *)
(* None when no inline reply is read.                                      *)
(***************************************************************************)
NoInlineReply(payload) ==
  \/ StartsWith(payload, <<"v">>)
  \/ StartsWith(payload, <<"c">>)
  \/ StartsWith(payload, <<"s">>)
  \/ payload = <<"?">>

SendFail(e, rest) == [ok |-> FALSE, err |-> e, reply |-> None, rest |-> rest, acks |-> 0]

SendAfterAck(sock, no_ack_mode, payload) ==
  IF NoInlineReply(payload)
  THEN [ok |-> TRUE, err |-> ErrIo, reply |-> None, rest |-> sock, acks |-> 0]
  ELSE LET Inline(r) ==
             IF r.ok
             THEN [ok |-> TRUE, err |-> ErrIo, reply |-> Some(r.payload),
                   rest |-> r.rest, acks |-> r.acks]
             ELSE SendFail(r.err, r.rest)
       IN  Inline(read_packet(sock, no_ack_mode))

\* A send_packet that reads no acknowledgement in either mode.
send_packet_unacknowledged(sock, no_ack_mode, payload) ==
  SendAfterAck(sock, no_ack_mode, payload)

send_packet(sock, no_ack_mode, payload) ==
  IF no_ack_mode THEN SendAfterAck(sock, no_ack_mode, payload)
  ELSE IF sock = <<>> THEN SendFail(ErrIo, <<>>)
  ELSE IF Head(sock) # "+" THEN SendFail(ErrUnexpectedReply(Head(sock)), Tail(sock))
  ELSE SendAfterAck(Tail(sock), no_ack_mode, payload)

\* expect_ok: Ok for the replies "OK" and "", and when no reply is read.
expect_ok(sock, no_ack_mode, payload) ==
  LET Match(r) ==
        IF ~r.ok THEN r
        ELSE IF r.reply = None \/ r.reply = Some(<<"O", "K">>) \/ r.reply = Some(<<>>)
        THEN r
        ELSE [ok |-> FALSE, err |-> ErrRemote(Unwrap(r.reply)), reply |-> None,
              rest |-> r.rest, acks |-> r.acks]
  IN  Match(send_packet(sock, no_ack_mode, payload))

\* The payload of clear_software_breakpoint.
z0Payload(address) == <<"z", "0", ",">> \o FormatHex(address) \o <<",", "1">>

Z0Payload(address) == <<"Z", "0", ",">> \o FormatHex(address) \o <<",", "1">>
VContC == <<"v", "C", "o", "n", "t", ";", "c">>
VContS == <<"v", "C", "o", "n", "t", ";", "s">>

set_software_breakpoint(sock, no_ack_mode, address) ==
  expect_ok(sock, no_ack_mode, Z0Payload(address))

continue_all(sock, no_ack_mode) == expect_ok(sock, no_ack_mode, VContC)

step_thread(sock, no_ack_mode, thread_id) == expect_ok(sock, no_ack_mode, VContS)

(***************************************************************************)
(* gdb_remote.rs: parse_stop_reply.  The result is tagged "none", "some"   *)
(* or "panic" (the slice reply[1..3] of a reply shorter than 3 bytes).     *)
(***************************************************************************)
ReasonBreakpoint == [kind |-> "Breakpoint", text |-> <<>>]
ReasonStep == [kind |-> "Step", text |-> <<>>]
ReasonSignal == [kind |-> "Signal", text |-> <<>>]
ReasonUnknown(word) == [kind |-> "Unknown", text |-> word]

StopReply(signal, thread_id, reason) ==
  [signal |-> signal, thread_id |-> thread_id, reason |-> reason]

NoReply == StopReply(0, None, ReasonSignal)
ParseNone == [tag |-> "none", reply |-> NoReply]
ParsePanic == [tag |-> "panic", reply |-> NoReply]
ParseSome(r) == [tag |-> "some", reply |-> r]

ThreadKey == <<"t", "h", "r", "e", "a", "d", ":">>
ReasonKey == <<"r", "e", "a", "s", "o", "n", ":">>

ReasonOf(word) ==
  CASE word = <<"b", "r", "e", "a", "k", "p", "o", "i", "n", "t">> -> ReasonBreakpoint
    [] word = <<"s", "i", "n", "g", "l", "e", "-", "s", "t", "e", "p">> -> ReasonStep
    [] OTHER -> ReasonUnknown(word)

RECURSIVE StopFields(_, _)
\* The loop over reply[3..].split(';'): acc is (thread_id, reason) so far.
StopFields(parts, acc) ==
  IF parts = <<>> THEN acc
  ELSE LET Thread(id) == IF id >= 0 THEN [acc EXCEPT !.thread_id = Some(id)] ELSE acc
           Field(part) ==
             IF StartsWith(part, ThreadKey)
             THEN Thread(from_str_radix(SubSeq(part, 8, Len(part)), UMax))
             ELSE IF StartsWith(part, ReasonKey)
             THEN [acc EXCEPT !.reason = ReasonOf(SubSeq(part, 8, Len(part)))]
             ELSE acc
       IN  StopFields(Tail(parts), Field(parts[1]))

parse_stop_reply(reply) ==
  LET Signalled(sig) ==
        IF sig < 0 THEN ParseNone ELSE ParseSome(StopReply(sig, None, ReasonSignal))
      Described(sig, acc) ==
        IF sig < 0 THEN ParseNone
        ELSE ParseSome(StopReply(sig, acc.thread_id, acc.reason))
  IN  IF reply = <<>> THEN ParseNone
      ELSE IF reply[1] = "S" /\ Len(reply) >= 3
      THEN Signalled(from_str_radix(SubSeq(reply, 2, 3), 255))
      ELSE IF reply[1] = "T"
      THEN IF Len(reply) < 3 THEN ParsePanic
           ELSE Described(from_str_radix(SubSeq(reply, 2, 3), 255),
                          StopFields(Split(SubSeq(reply, 4, Len(reply)), ";"),
                                     [thread_id |-> None,
                                      reason |-> ReasonUnknown(<<"s", "i", "g", "n", "a", "l">>)]))
      ELSE ParseNone


(***************************************************************************)
(* gdb_remote.rs: handshake and connect.  A script is what the stub sends  *)
(* in time: the banner, and the bytes after each of the three packets.     *)
(* The result holds the packets written, in order.                         *)
(***************************************************************************)
QSupported ==
  <<"q", "S", "u", "p", "p", "o", "r", "t", "e", "d", ":", "m", "u", "l", "t",
    "i", "p", "r", "o", "c", "e", "s", "s", "+", ";", "q", "R", "e", "l", "o",
    "c", "I", "n", "s", "n", "+">>
QStartNoAckMode ==
  <<"Q", "S", "t", "a", "r", "t", "N", "o", "A", "c", "k", "M", "o", "d", "e">>
QStartNoAckModePlus == QStartNoAckMode \o <<"+">>
QuestionMark == <<"?">>

\* self.stream.read(&mut tmp) with tmp: [u8; 8]: takes up to 8 bytes; a
\* timeout is ignored.
DrainBanner(sock) == SubSeq(sock, 9, Len(sock))

handshake(script) ==
  LET Wire(offered) ==
        <<QSupported>> \o (IF offered THEN <<QStartNoAckMode>> ELSE <<>>)
          \o <<QuestionMark>>
      \* send_packet("?")? and the read_packet whose result is dropped
      Synced(sync, no_ack, offered) ==
        IF sync.ok
        THEN [ok |-> TRUE, err |-> ErrIo, no_ack_mode |-> no_ack,
              rest |-> read_packet(sync.rest, no_ack).rest, wire |-> Wire(offered)]
        ELSE [ok |-> FALSE, err |-> sync.err, no_ack_mode |-> no_ack,
              rest |-> sync.rest, wire |-> Wire(offered)]
      Sync(s1, no_ack, offered) ==
        Synced(send_packet(s1 \o script.after_question, no_ack, QuestionMark),
               no_ack, offered)
      \* the result of send_packet("QStartNoAckMode")
      Switched(n) == Sync(n.rest, n.ok /\ n.reply = Some(<<"O", "K">>), TRUE)
      \* the result of read_packet after qSupported
      Offered(reply) ==
        IF reply.ok /\ Contains(reply.payload, QStartNoAckModePlus)
        THEN Switched(send_packet(reply.rest \o script.after_noack, FALSE,
                                  QStartNoAckMode))
        ELSE Sync(reply.rest, FALSE, FALSE)
      \* the result of send_packet("qSupported..."), errors ignored
      Announced(q) == Offered(read_packet(q.rest, FALSE))
  IN  Announced(send_packet(DrainBanner(script.banner) \o script.after_qsupported,
                            FALSE, QSupported))

\* GdbRemoteClient::connect: tcp_ok is whether TcpStream::connect succeeds.
connect(tcp_ok, script) ==
  IF ~tcp_ok
  THEN [ok |-> FALSE, err |-> ErrRefused, no_ack_mode |-> FALSE,
        rest |-> <<>>, wire |-> <<>>]
  ELSE handshake(script)

(***************************************************************************)
(* symbols.rs: address translation under the signed slide.                 *)
(***************************************************************************)
translate_remote_pc(remote_pc, slide) ==
  IF slide >= 0 THEN WrapU(remote_pc - WrapU(slide))
  ELSE WrapU(remote_pc + WrapU(0 - slide))

local_to_remote(local_pc, slide) ==
  IF slide >= 0 THEN WrapU(local_pc + WrapU(slide))
  ELSE WrapU(local_pc - WrapU(0 - slide))

(***************************************************************************)
(* backend.rs: the line index.  A path is a byte sequence; the index is a  *)
(* function from <<file, line>> keys to the sequence of ranges of the key. *)
(***************************************************************************)
RECURSIVE TrimEndSlashes(_)
TrimEndSlashes(p) ==
  IF p # <<>> /\ p[Len(p)] = "/" THEN TrimEndSlashes(SubSeq(p, 1, Len(p) - 1)) ELSE p

RECURSIVE LastSlash(_, _)
LastSlash(p, i) == IF i = 0 \/ p[i] = "/" THEN i ELSE LastSlash(p, i - 1)

\* Path::new(file).file_name(): the last component, None for a path with
\* none or one that ends in "..".
file_name(file) ==
  LET p == TrimEndSlashes(file)
      name == SubSeq(p, LastSlash(p, Len(p)) + 1, Len(p))
  IN  IF name = <<>> \/ name = <<".", ".">> THEN None ELSE Some(name)

Bucket(map, file, line) ==
  IF <<file, line>> \in DOMAIN map THEN map[<<file, line>>] ELSE <<>>

\* A lookup that tries the exact key only.
lookup_exact_key(map, file, line) == Bucket(map, file, line)

\* LineIndex::lookup
lookup(map, file, line) ==
  LET exact == Bucket(map, file, line)
      name == file_name(file)
  IN  IF exact # <<>> THEN exact
      ELSE IF IsSome(name) /\ Unwrap(name) # file THEN Bucket(map, Unwrap(name), line)
      ELSE <<>>

AddressRange(low, high) == [low |-> low, high |-> high]

\* An insert_range that files the range under the basename ahead of the
\* ranges already there.
insert_range_in_front(map, file, line, range) ==
  LET Push(m) == (<<file, line>> :> Append(Bucket(m, file, line), range)) @@ m
      Named(m, name) ==
        IF IsSome(name) /\ Unwrap(name) # file
        THEN (<<Unwrap(name), line>> :> (<<range>> \o Bucket(m, Unwrap(name), line))) @@ m
        ELSE m
  IN  Named(Push(map), file_name(file))

\* LineIndex::insert_range: the range joins the bucket of the key, and the
\* bucket of the basename when the basename is not the file itself.
insert_range(map, file, line, range) ==
  LET Push(m, f) == (<<f, line>> :> Append(Bucket(m, f, line), range)) @@ m
      Named(m, name) ==
        IF IsSome(name) /\ Unwrap(name) # file THEN Push(m, Unwrap(name)) ELSE m
  IN  Named(Push(map, file), file_name(file))

\* A row of a line program: an end-of-sequence row has an address only.
Row(file, line, address) ==
  [end_sequence |-> FALSE, file |-> file, line |-> line, address |-> address]
EndSequence(address) ==
  [end_sequence |-> TRUE, file |-> <<>>, line |-> 0, address |-> address]

RECURSIVE consume_line_program(_, _, _)
\* A consume_line_program that files a row's range only when the row after
\* it is at a higher address.
consume_rising_rows(map, rows, previous) ==
  IF rows = <<>> THEN map
  ELSE LET Emit(prev, row) ==
             IF row.address > prev.start
             THEN insert_range(map, prev.file, prev.line,
                               AddressRange(prev.start, row.address))
             ELSE map
           Turn(row, emitted) ==
             IF row.end_sequence THEN consume_line_program(emitted, Tail(rows), None)
             ELSE consume_line_program(emitted, Tail(rows),
                                       Some([file |-> row.file, line |-> row.line,
                                             start |-> row.address]))
       IN  Turn(rows[1], IF IsSome(previous) THEN Emit(Unwrap(previous), rows[1]) ELSE map)

\* A consume_line_program in which an end of sequence closes the open
\* range and leaves it open.
consume_across_sequences(map, rows, previous) ==
  IF rows = <<>> THEN map
  ELSE LET Emit(prev, row) ==
             IF \/ row.end_sequence /\ row.address > prev.start
                \/ ~row.end_sequence /\ row.address >= prev.start
             THEN insert_range(map, prev.file, prev.line,
                               AddressRange(prev.start, row.address))
             ELSE map
           Turn(row, emitted) ==
             IF row.end_sequence THEN consume_line_program(emitted, Tail(rows), previous)
             ELSE consume_line_program(emitted, Tail(rows),
                                       Some([file |-> row.file, line |-> row.line,
                                             start |-> row.address]))
       IN  Turn(rows[1], IF IsSome(previous) THEN Emit(Unwrap(previous), rows[1]) ELSE map)

\* LineIndex::consume_line_program: the loop over the rows; previous is the
\* row whose range is open, None after an end of sequence.
consume_line_program(map, rows, previous) ==
  IF rows = <<>> THEN map
  ELSE LET Emit(prev, row) ==
             IF \/ row.end_sequence /\ row.address > prev.start
                \/ ~row.end_sequence /\ row.address >= prev.start
             THEN insert_range(map, prev.file, prev.line,
                               AddressRange(prev.start, row.address))
             ELSE map
           Turn(row, emitted) ==
             IF row.end_sequence THEN consume_line_program(emitted, Tail(rows), None)
             ELSE consume_line_program(emitted, Tail(rows),
                                       Some([file |-> row.file, line |-> row.line,
                                             start |-> row.address]))
       IN  Turn(rows[1], IF IsSome(previous) THEN Emit(Unwrap(previous), rows[1]) ELSE map)


(***************************************************************************)
(* main.rs: the JSON values of a request's arguments and their parsing     *)
(* (serde).  An object is a record of fields; every other value is tagged. *)
(***************************************************************************)
JNull == [t |-> "null"]
JNum(n) == [t |-> "number", v |-> n]
JStr(text) == [t |-> "string", v |-> text]
JObj(fields) == [t |-> "object", f |-> fields]

HasField(value, name, type) ==
  /\ value.t = "object"
  /\ name \in DOMAIN value.f
  /\ value.f[name].t = type

ParseErr(text) == [ok |-> FALSE, err |-> text, val |-> JNull]
ParseOk(val) == [ok |-> TRUE, err |-> "", val |-> val]

\* A required integer field of the given range.
ParseIntField(value, name, min, max, struct) ==
  IF value.t # "object" THEN ParseErr("invalid type, expected struct " \o struct)
  ELSE IF name \notin DOMAIN value.f THEN ParseErr("missing field " \o name)
  ELSE IF value.f[name].t # "number" THEN ParseErr("invalid type, expected integer")
  ELSE IF value.f[name].v < min \/ value.f[name].v > max
  THEN ParseErr("invalid value, integer out of range")
  ELSE ParseOk(value.f[name].v)

\* parse_arguments::<ThreadArguments>, ::<StackTraceArguments>
ParseThreadArguments(value, struct) ==
  ParseIntField(value, "threadId", IMin, IMax, struct)

\* parse_arguments::<ScopesArguments>
ParseScopesArguments(value) ==
  ParseIntField(value, "frameId", IMin, IMax, "ScopesArguments")

\* parse_arguments::<VariablesArguments>
ParseVariablesArguments(value) ==
  ParseIntField(value, "variablesReference", IMin, IMax, "VariablesArguments")

OptString(value, name) ==
  IF HasField(value, name, "string") THEN Some(value.f[name].v) ELSE None

\* parse_arguments::<LaunchArguments>: debugserverPort: u16, program: String,
\* cwd: Option<String>.
ParseLaunchArguments(value) ==
  LET port == ParseIntField(value, "debugserverPort", 0, 65535, "LaunchArguments")
  IN  IF ~port.ok THEN port
      ELSE IF "program" \notin DOMAIN value.f THEN ParseErr("missing field program")
      ELSE IF value.f["program"].t # "string"
      THEN ParseErr("invalid type, expected a string")
      ELSE ParseOk([debugserver_port |-> port.val, program |-> Some(value.f["program"].v),
                    cwd |-> OptString(value, "cwd")])

\* parse_arguments::<AttachArguments>: program is optional.
ParseAttachArguments(value) ==
  LET port == ParseIntField(value, "debugserverPort", 0, 65535, "AttachArguments")
  IN  IF ~port.ok THEN port
      ELSE IF "program" \in DOMAIN value.f /\ value.f["program"].t \notin {"string", "null"}
      THEN ParseErr("invalid type, expected a string")
      ELSE ParseOk([debugserver_port |-> port.val, program |-> OptString(value, "program"),
                    cwd |-> OptString(value, "cwd")])

\* parse_arguments::<SetBreakpointsArguments>: source: Source { path:
\* Option<String> }, breakpoints: Vec<SourceBreakpoint { line: i64 }>
\* (default empty).  Paths are byte sequences, breakpoints a sequence of lines.
ParseSetBreakpointsArguments(value) ==
  IF value.t # "object"
  THEN ParseErr("invalid type, expected struct SetBreakpointsArguments")
  ELSE IF "source" \notin DOMAIN value.f THEN ParseErr("missing field source")
  ELSE IF value.f["source"].t # "object"
  THEN ParseErr("invalid type, expected struct Source")
  ELSE ParseOk([path |-> OptString(value.f["source"], "path"),
                breakpoints |-> IF "breakpoints" \in DOMAIN value.f
                                THEN value.f["breakpoints"].v ELSE <<>>])

(***************************************************************************)
(* main.rs: outbound messages.  A response and an event are records of one *)
(* shape; the fields the message does not have hold their defaults.        *)
(***************************************************************************)
Response(request_seq, command, success, body, message) ==
  [seq |-> 0, type |-> "response", request_seq |-> request_seq, success |-> success,
   command |-> command, message |-> message, body |-> body, event |-> ""]

Event(event, body) ==
  [seq |-> 0, type |-> "event", request_seq |-> 0, success |-> FALSE,
   command |-> "", message |-> None, body |-> body, event |-> event]

\* Session::send_error_response
ErrorResponse(req, message) == Response(req.seq, req.command, FALSE, None, Some(message))

\* Session::handle_simple_ok: a null body is left out.
OkResponse(req, body) == Response(req.seq, req.command, TRUE, body, None)

\* A next_seq that returns the counter without advancing it.
next_seq_stuck(current) == current

\* Session::next_seq: the counter after one call (the call returns the old
\* value).
next_seq_after(current) == current + 1

RECURSIVE Stamp(_, _)
\* respond / emit_event, one message after the other: each takes the
\* counter's value as its seq and advances the counter.
Stamp(drafts, counter) ==
  IF drafts = <<>> THEN <<>>
  ELSE <<[drafts[1] EXCEPT !.seq = counter]>> \o Stamp(Tail(drafts), next_seq_after(counter))

RECURSIVE CounterAfter(_, _)
CounterAfter(drafts, counter) ==
  IF drafts = <<>> THEN counter ELSE CounterAfter(Tail(drafts), next_seq_after(counter))

(***************************************************************************)
(* backend.rs: BackendStopEvent::from_reply and the stopped event.         *)
(***************************************************************************)
from_reply(reply) ==
  LET thread_id == WrapI(IF IsSome(reply.thread_id) THEN Unwrap(reply.thread_id) ELSE 1)
  IN  CASE reply.reason.kind = "Breakpoint" ->
             [reason |-> "breakpoint", description |-> "Breakpoint hit", thread_id |-> thread_id]
        [] reply.reason.kind = "Step" ->
             [reason |-> "step", description |-> "Step completed", thread_id |-> thread_id]
        [] reply.reason.kind = "Signal" ->
             [reason |-> "signal", description |-> "Signal " \o ToString(reply.signal),
              thread_id |-> thread_id]
        [] reply.reason.kind = "Unknown" ->
             [reason |-> "stopped", description |-> Str(reply.reason.text),
              thread_id |-> thread_id]

\* An emit_stop_event that names the event after its reason.
ReasonEvent(event) ==
  Event(event.reason, Some([reason |-> event.reason, description |-> event.description,
                            threadId |-> event.thread_id]))

\* Session::emit_stop_event
StoppedEvent(event) ==
  Event("stopped", Some([reason |-> event.reason, description |-> event.description,
                         threadId |-> event.thread_id]))


(***************************************************************************)
(* The state.                                                              *)
(***************************************************************************)
VARIABLES
  next_seq,        \* Session.next_seq
  initialized,     \* Session.initialized
  pc,              \* "idle": main reads stdin; "wait_for_stop": blocked in
                   \* wait_for_stop; "done": main returned; "aborted": a panic
  connected_port,  \* Backend.connected_port: Option<u16>
  gdb_client,      \* Backend.gdb_client: Option of [port, no_ack_mode]
  breakpoints,     \* Backend.breakpoints: a function from paths to line lists
  line_index,      \* Backend.line_index: Option of an index
  sock,            \* the bytes that reached the client's socket and are unread
  stub_running,    \* 0, or the number of the request whose vCont resumed the target
  stub_output,     \* whether the running target has written console output
  ide_mode,        \* "serial": the IDE writes a request when the adapter is idle;
                   \* "pipelined": it writes ahead, into stdin
  stdin,           \* the messages written to stdin and not yet read
  written,         \* the number of messages the IDE has written
  served,          \* the number of messages main has read
  produced,        \* the number of messages written to stdout so far
  stdout,          \* the messages written to stdout that the IDE has not read,
                   \* each with the number of the message that caused it
  lastReq,         \* the message main read last, until the IDE has read its output
  wire,            \* the packets written to the stub for it
  frames,          \* for each "$" unread in sock: the request whose stop reply it
                   \* begins, 0 for any other packet
  eaten,           \* the stop replies the client has read: [owner, by]
  planted,         \* the addresses (hex text) the stub of the connection was
                   \* told to plant (Z0) and not told to clear (z0) since
  result           \* the call of the RSP client made on its own, outside a
                   \* session, and what it returned

vars == <<next_seq, initialized, pc, connected_port, gdb_client, breakpoints,
          line_index, sock, stub_running, stub_output, ide_mode, stdin, written,
          served, produced, stdout, lastReq, wire, frames, eaten, planted, result>>

sessionVars == <<next_seq, initialized>>
outputVars == <<next_seq, produced, stdout>>
backendVars == <<connected_port, gdb_client, breakpoints, line_index>>
stubVars == <<sock, stub_running, stub_output, frames, eaten, planted>>

(***************************************************************************)
(* The environment: the debuggee's line table, the stub's replies, and the *)
(* messages of the IDE.                                                    *)
(***************************************************************************)
FooPath == <<"/", "t", "/", "f", ".", "r", "s">>
FooName == <<"f", ".", "r", "s">>
BarPath == <<"g", ".", "r", "s">>

\* Image.vmaddr_text of the debuggee, and its slide (only
\* update_slide_from_remote_text_base sets a slide, and no request calls it).
VmaddrText == 4096
SessionSlide == 0

\* The line index of the debuggee: line 42 of /t/f.rs has one range, line 9
\* has two, and one range belongs to rows without a line (line 0); every
\* range is also filed under the basename.
TestIndex ==
  LET r42 == <<AddressRange(VmaddrText, VmaddrText + 4)>>
      r9 == <<AddressRange(VmaddrText + 4, VmaddrText + 8),
              AddressRange(VmaddrText + 16, VmaddrText + 20)>>
      r0 == <<AddressRange(VmaddrText + 8, VmaddrText + 16)>>
  IN  (<<FooPath, 42>> :> r42) @@ (<<FooName, 42>> :> r42)
        @@ (<<FooPath, 9>> :> r9) @@ (<<FooName, 9>> :> r9)
        @@ (<<FooPath, 0>> :> r0) @@ (<<FooName, 0>> :> r0)

BadFrame(payload) ==
  <<"$">> \o payload \o <<"#">> \o Hex2((Checksum(payload) + 1) % 256)

\* The "+" a stub in ack mode sends for a packet it accepts.
StubAck(no_ack_mode) == IF no_ack_mode THEN <<>> ELSE <<"+">>

ReplyOK == <<"O", "K">>
ReplyE01 == <<"E", "0", "1">>
StopS05 == <<"S", "0", "5">>
StopT05 ==
  <<"T", "0", "5", "t", "h", "r", "e", "a", "d", ":", "1", ";", "r", "e", "a",
    "s", "o", "n", ":", "b", "r", "e", "a", "k", "p", "o", "i", "n", "t", ";">>
ShortT == <<"T">>
ConsoleOutput == <<"O", "4", "8">>

\* What a stub sends in time after a Z0 packet: OK, an error, nothing, a
\* corrupted frame, a "-".
ZReactions(no_ack_mode) ==
  { StubAck(no_ack_mode) \o Frame(ReplyOK),
    StubAck(no_ack_mode) \o Frame(ReplyE01),
    <<>>,
    StubAck(no_ack_mode) \o BadFrame(ReplyOK),
    <<"-">> }

\* What a stub sends in time after a vCont packet, and whether it resumed the
\* target.
VContReactions(no_ack_mode) ==
  { [bytes |-> StubAck(no_ack_mode), resumes |-> TRUE],
    [bytes |-> <<"-">>, resumes |-> FALSE],
    [bytes |-> <<>>, resumes |-> FALSE] }

\* What a stub with a running target sends: a stop reply, a truncated or
\* corrupted one, console output.
StopFrames == {Frame(StopT05), Frame(StopS05)}
StubEmissions == StopFrames \cup {Frame(ShortT), BadFrame(StopS05), Frame(ConsoleOutput)}

\* The stub's side of the handshake: a stub that answers each packet once, a
\* stub that offers no-ack mode in a second packet, and a silent peer.
HandshakeScripts ==
  { [banner |-> <<>>,
     after_qsupported |-> <<"+">> \o Frame(QStartNoAckModePlus),
     after_noack |-> <<"+">> \o Frame(ReplyOK),
     after_question |-> <<"+">> \o Frame(StopS05)],
    [banner |-> <<>>,
     after_qsupported |-> <<"+">> \o Frame(<<>>) \o Frame(QStartNoAckModePlus),
     after_noack |-> <<"+">> \o Frame(ReplyOK),
     after_question |-> Frame(StopS05)],
    [banner |-> <<>>, after_qsupported |-> <<>>, after_noack |-> <<>>,
     after_question |-> <<>>] }

Port == 12345
LineLists == {<<>>, <<0, 7, 42>>, <<9>>}

ThreadArgs(n) == JObj([threadId |-> JNum(n)])
LaunchArgs == JObj([debugserverPort |-> JNum(Port), program |-> JStr("/app")])
AttachArgs == JObj([debugserverPort |-> JNum(Port)])
\* A second port, for an attach to another stub.
OtherPort == Port + 1
BreakpointArgs(path, lines) ==
  JObj([source |-> JObj([path |-> JStr(path)]), breakpoints |-> [t |-> "array", v |-> lines]])

\* The arguments the IDE sends with a command; JNull stands for arguments
\* that are missing or ill-typed.
ArgumentsOf(command) ==
  CASE command \in {"launch"} -> {JNull, LaunchArgs}
    [] command \in {"attach"} ->
         {JNull, AttachArgs, JObj([debugserverPort |-> JNum(OtherPort)])}
    [] command = "setBreakpoints" ->
         {JNull, JObj([source |-> JObj([name |-> JStr(FooName)])]),
          BreakpointArgs(BarPath, <<42>>)}
           \cup {BreakpointArgs(FooPath, lines) : lines \in LineLists}
    [] command = "stackTrace" -> {JNull, ThreadArgs(1), ThreadArgs(IMax)}
    [] command = "scopes" -> {JNull, JObj([frameId |-> JNum(1)])}
    [] command = "variables" -> {JNull, JObj([variablesReference |-> JNum(1)])}
    [] command = "continue" -> {JNull, ThreadArgs(1)}
    [] command \in {"next", "stepIn"} -> {JNull, ThreadArgs(1)}
    [] OTHER -> {JNull}

Commands ==
  {"initialize", "launch", "attach", "setBreakpoints", "configurationDone", "threads",
   "stackTrace", "scopes", "variables", "continue", "next", "stepIn", "disconnect"}

\* The seq the IDE gives its n-th message.
IdeSeq(n) == 100 + n

Request(n, command, arguments) ==
  [kind |-> "request", seq |-> IdeSeq(n), command |-> command, arguments |-> arguments]

\* The n-th message of the IDE: a request with a known or an unknown command,
\* an envelope that is no request, or a body that is no envelope.
Messages(n) ==
  UNION {{Request(n, c, a) : a \in ArgumentsOf(c)} : c \in Commands \cup {"bogus"}}
    \cup {[kind |-> "other", seq |-> IdeSeq(n), command |-> "", arguments |-> JNull],
          [kind |-> "malformed", seq |-> 0, command |-> "", arguments |-> JNull]}

\* What a pipelining IDE writes ahead.
PipelinedMessages(n) ==
  {Request(n, "threads", JNull), Request(n, "continue", ThreadArgs(1)),
   Request(n, "launch", LaunchArgs), Request(n, "disconnect", JNull),
   Request(n, "setBreakpoints", BreakpointArgs(FooPath, <<9>>))}


(***************************************************************************)
(* Session::new over Backend::from_symbol_context.                         *)
(***************************************************************************)
NoMessage == [kind |-> "none", seq |-> 0, command |-> "", arguments |-> JNull]

\* No call of the RSP client on its own was made.
NoResult == [op |-> "none"]

InitMode(mode) ==
  /\ next_seq = 1
  /\ initialized = FALSE
  /\ pc = "idle"
  /\ connected_port = None
  /\ gdb_client = None
  /\ breakpoints = <<>>
  /\ line_index = None
  /\ sock = <<>>
  /\ stub_running = 0
  /\ stub_output = FALSE
  /\ ide_mode = mode
  /\ stdin = <<>>
  /\ written = 0
  /\ served = 0
  /\ produced = 0
  /\ stdout = <<>>
  /\ lastReq = NoMessage
  /\ wire = <<>>
  /\ frames = <<>>
  /\ eaten = {}
  /\ planted = {}
  /\ result = NoResult

Init == InitMode("serial")

(***************************************************************************)
(* main: reading the next message.                                         *)
(***************************************************************************)
\* Whether read_dap_message returns a message now.  An IDE that does not
\* write ahead sends a message once it has read what the one before caused.
Readable ==
  /\ pc = "idle"
  /\ served < MaxRequests
  /\ IF ide_mode = "serial" THEN lastReq = NoMessage /\ stdout = <<>>
     ELSE stdin # <<>>

\* The messages read_dap_message can return next.
Incoming ==
  IF ~Readable THEN {}
  ELSE IF ide_mode = "serial" THEN Messages(served + 1)
  ELSE {Head(stdin)}

\* Those of them that are requests with the given command.
Requests(command) ==
  IF ~Readable THEN {}
  ELSE IF ide_mode = "serial"
  THEN {Request(served + 1, command, a) : a \in ArgumentsOf(command)}
  ELSE {msg \in {Head(stdin)} : msg.kind = "request" /\ msg.command = command}

\* A read that leaves the message at the head of stdin.
ReadAgain(msg) ==
  /\ Readable
  /\ served' = served + 1
  /\ written' = IF ide_mode = "serial" THEN written + 1 ELSE written
  /\ stdin' = stdin
  /\ lastReq' = msg
  /\ UNCHANGED <<ide_mode, result>>

\* main reads msg: the loop of main.rs, between two requests.
Read(msg) ==
  /\ Readable
  /\ served' = served + 1
  /\ written' = IF ide_mode = "serial" THEN written + 1 ELSE written
  /\ stdin' = IF ide_mode = "serial" THEN stdin ELSE Tail(stdin)
  /\ lastReq' = msg
  /\ UNCHANGED <<ide_mode, result>>

\* The drafts are written to stdout, in order, for message number cause.
Write(drafts, cause) ==
  /\ stdout' = stdout \o [i \in 1..Len(drafts) |->
                            [cause |-> cause, msg |-> Stamp(drafts, next_seq)[i]]]
  /\ produced' = produced + Len(drafts)
  /\ next_seq' = CounterAfter(drafts, next_seq)

\* The request returns Ok(true) and main reads on.
Continue == pc' = "idle"

CountDollar(s) == Cardinality({i \in 1..Len(s) : s[i] = "$"})

\* The client read from the socket: all, the frames of the stub's bytes `fed`
\* included, that sock' no longer holds were read by request number `by`.
Consume(fed, owner, rest, by) ==
  \E all \in {frames \o [i \in 1..CountDollar(fed) |-> owner]} :
  \E kept \in {CountDollar(rest)} :
  \E gone \in {SubSeq(all, 1, Len(all) - kept)} :
      /\ sock' = rest
      /\ frames' = SubSeq(all, Len(all) - kept + 1, Len(all))
      /\ eaten' = eaten \cup {[owner |-> gone[i], by |-> by] :
                                i \in {j \in 1..Len(gone) : gone[j] # 0}}


(***************************************************************************)
(* Session: the handlers that touch neither the Backend nor the stub.      *)
(***************************************************************************)
IsRequest(msg, command) == msg.kind = "request" /\ msg.command = command

Quiet == wire' = <<>> /\ UNCHANGED <<backendVars, stubVars>>

\* A failure response that carries a fixed text in place of the error.
fail_with_fixed_text(req, message) ==
  /\ Write(<<ErrorResponse(req, "invalid arguments")>>, served + 1)
  /\ Continue

\* A handler that writes one failure response and returns Ok(true), e.g. when
\* parse_arguments fails.
Fail(req, message) ==
  /\ Write(<<ErrorResponse(req, message)>>, served + 1)
  /\ Continue

\* An initialize that answers and announces nothing.
initialize_without_event(req) ==
  /\ Read(req)
  /\ IsRequest(req, "initialize")
  /\ initialized' = TRUE
  /\ Write(<<OkResponse(req, Some([supportsConfigurationDoneRequest |-> TRUE]))>>, served + 1)
  /\ Continue
  /\ Quiet

handle_initialize(req) ==
  /\ Read(req)
  /\ IsRequest(req, "initialize")
  /\ initialized' = TRUE
  /\ Write(<<OkResponse(req, Some([supportsConfigurationDoneRequest |-> TRUE])),
             Event("initialized", None)>>, served + 1)
  /\ Continue
  /\ Quiet

\* "configurationDone" => handle_simple_ok(seq, command, Value::Null)
handle_configuration_done(req) ==
  /\ Read(req)
  /\ IsRequest(req, "configurationDone")
  /\ Write(<<OkResponse(req, None)>>, served + 1)
  /\ Continue
  /\ Quiet
  /\ UNCHANGED initialized

\* Backend::threads
threads ==
  <<[id |-> 1,
     name |-> "Stub Thread" \o (IF IsSome(connected_port)
                                THEN " (" \o ToString(Unwrap(connected_port)) \o ")"
                                ELSE "")]>>

handle_threads(req) ==
  /\ Read(req)
  /\ IsRequest(req, "threads")
  /\ Write(<<OkResponse(req, Some([threads |-> threads]))>>, served + 1)
  /\ Continue
  /\ Quiet
  /\ UNCHANGED initialized

\* Backend::backend_fetch_frames without a frame provider: the frame id
\* thread_id * 100 + 1 before it is fitted to an i64, and the pc.
DefaultFrameId(thread_id) == thread_id * 100 + 1
Overflows(n) == n < IMin \/ n > IMax

\* Backend::stack_trace for a pc the DWARF data has no frame for.
stack_trace(thread_id) ==
  <<[id |-> WrapI(DefaultFrameId(thread_id)), name |-> "<unknown>", line |-> 0,
     column |-> 1, source |-> [name |-> "<unknown>", path |-> "<unknown>"],
     presentationHint |-> "normal"]>>

\* An arithmetic overflow panics in a build with overflow checks and wraps in
\* one without.
handle_stack_trace(req) ==
  /\ Read(req)
  /\ IsRequest(req, "stackTrace")
  /\ LET args == ParseThreadArguments(req.arguments, "StackTraceArguments")
     IN  \/ /\ ~args.ok
            /\ Fail(req, args.err)
         \/ /\ args.ok
            /\ Write(<<OkResponse(req, Some([stackFrames |-> stack_trace(args.val),
                                             totalFrames |-> 2]))>>, served + 1)
            /\ Continue
         \/ /\ args.ok
            /\ Overflows(DefaultFrameId(args.val))
            /\ pc' = "aborted"
            /\ UNCHANGED outputVars
  /\ Quiet
  /\ UNCHANGED initialized

\* Backend::scopes
scopes == <<[name |-> "Locals", variablesReference |-> 1, expensive |-> FALSE]>>

handle_scopes(req) ==
  /\ Read(req)
  /\ IsRequest(req, "scopes")
  /\ LET args == ParseScopesArguments(req.arguments)
     IN  IF args.ok
         THEN Write(<<OkResponse(req, Some([scopes |-> scopes]))>>, served + 1) /\ Continue
         ELSE Fail(req, args.err)
  /\ Quiet
  /\ UNCHANGED initialized

\* Backend::variables
variables(variables_reference) ==
  <<[name |-> "var", value |-> "value-" \o ToString(variables_reference),
     type |-> "string", variablesReference |-> 0],
    [name |-> "counter", value |-> "123", type |-> "int", variablesReference |-> 0]>>

handle_variables(req) ==
  /\ Read(req)
  /\ IsRequest(req, "variables")
  /\ LET args == ParseVariablesArguments(req.arguments)
     IN  IF args.ok
         THEN Write(<<OkResponse(req, Some([variables |-> variables(args.val)]))>>, served + 1)
              /\ Continue
         ELSE Fail(req, args.err)
  /\ Quiet
  /\ UNCHANGED initialized

\* A default arm that drops the request.
drop_unknown(req) ==
  /\ Read(req)
  /\ req.kind = "request"
  /\ req.command \notin Commands
  /\ Continue
  /\ Quiet
  /\ UNCHANGED <<initialized, outputVars>>

\* The default arm of handle_request.
handle_unknown(req) ==
  /\ Read(req)
  /\ req.kind = "request"
  /\ req.command \notin Commands
  /\ Fail(req, "Unknown command: " \o req.command)
  /\ Quiet
  /\ UNCHANGED initialized

\* main: a body that is no envelope is logged to stderr and skipped, and an
\* envelope that is no request is skipped.
main_skip(msg) ==
  /\ Read(msg)
  /\ msg.kind \in {"other", "malformed"}
  /\ Continue
  /\ Quiet
  /\ UNCHANGED <<initialized, outputVars>>

\* main: read_dap_message returns None at the end of stdin.
main_eof ==
  /\ pc = "idle"
  /\ ide_mode = "pipelined"
  /\ stdin = <<>>
  /\ written = MaxRequests
  /\ pc' = "done"
  /\ UNCHANGED <<initialized, outputVars, backendVars, stubVars, ide_mode, stdin, written,
                 served, lastReq, wire, result>>

(***************************************************************************)
(* Backend::connect_debugserver under launch and attach.                   *)
(***************************************************************************)
ConnectError(port, err) ==
  "failed to connect to debugserver on port " \o ToString(port) \o ": " \o ErrorText(err)

\* What GdbRemoteClient::connect can return: the connection is refused, or
\* the handshake runs against one of the stubs.
Connections ==
  {connect(FALSE, [banner |-> <<>>])} \cup {connect(TRUE, script) : script \in HandshakeScripts}

\* A connect_debugserver that keeps the client it has and only records the
\* port.
connect_keeping_client(req, args, c) ==
      /\ wire' = c.wire
      /\ IF c.ok
         THEN /\ connected_port' = Some(args.debugserver_port)
              /\ gdb_client' = IF gdb_client = None
                               THEN Some([port |-> args.debugserver_port,
                                          no_ack_mode |-> c.no_ack_mode])
                               ELSE gdb_client
              /\ sock' = IF gdb_client = None THEN c.rest ELSE sock
              /\ frames' = IF gdb_client = None THEN [i \in 1..CountDollar(c.rest) |-> 0]
                           ELSE frames
              /\ eaten' = eaten
              /\ planted' = {}
              /\ stub_running' = 0
              /\ stub_output' = FALSE
              /\ Write(<<OkResponse(req, Some([program |-> args.program, cwd |-> args.cwd,
                                               debugserverPort |-> args.debugserver_port]))>>,
                       served + 1)
         ELSE /\ UNCHANGED <<connected_port, gdb_client, stubVars>>
              /\ Write(<<ErrorResponse(req, ConnectError(args.debugserver_port, c.err))>>,
                       served + 1)
      /\ Continue
      /\ UNCHANGED <<breakpoints, line_index>>

\* A connect_debugserver that, once connected, plants the last line the
\* table holds for the debuggee's source file.
connect_replanting(req, args, c) ==
  \E ranges \in {IF /\ c.ok
                     /\ FooPath \in DOMAIN breakpoints
                     /\ breakpoints[FooPath] # <<>>
                  THEN lookup(TestIndex, FooPath,
                              breakpoints[FooPath][Len(breakpoints[FooPath])])
                  ELSE <<>>} :
      /\ wire' = c.wire \o [i \in 1..Len(ranges) |->
                               Z0Payload(local_to_remote(ranges[i].low, SessionSlide))]
      /\ IF c.ok
         THEN /\ connected_port' = Some(args.debugserver_port)
              /\ gdb_client' = Some([port |-> args.debugserver_port,
                                     no_ack_mode |-> c.no_ack_mode])
              /\ sock' = c.rest
              /\ frames' = [i \in 1..CountDollar(c.rest) |-> 0]
              /\ UNCHANGED eaten
              /\ planted' = {FormatHex(local_to_remote(ranges[i].low, SessionSlide)) :
                               i \in 1..Len(ranges)}
              /\ stub_running' = 0
              /\ stub_output' = FALSE
              /\ Write(<<OkResponse(req, Some([program |-> args.program, cwd |-> args.cwd,
                                               debugserverPort |-> args.debugserver_port]))>>,
                       served + 1)
         ELSE /\ UNCHANGED <<connected_port, gdb_client, stubVars>>
              /\ Write(<<ErrorResponse(req, ConnectError(args.debugserver_port, c.err))>>,
                       served + 1)
      /\ Continue
      /\ UNCHANGED <<breakpoints, line_index>>

\* handle_launch and handle_attach after parse_arguments, c being the result
\* of GdbRemoteClient::connect: on Ok the new client replaces the old one and
\* its socket; on Err the Backend keeps what it had.
connect_debugserver(req, args, c) ==
      /\ wire' = c.wire
      /\ IF c.ok
         THEN /\ connected_port' = Some(args.debugserver_port)
              /\ gdb_client' = Some([port |-> args.debugserver_port,
                                     no_ack_mode |-> c.no_ack_mode])
              /\ sock' = c.rest
              /\ frames' = [i \in 1..CountDollar(c.rest) |-> 0]
              /\ eaten' = eaten
              /\ planted' = {}
              /\ stub_running' = 0
              /\ stub_output' = FALSE
              /\ Write(<<OkResponse(req, Some([program |-> args.program, cwd |-> args.cwd,
                                               debugserverPort |-> args.debugserver_port]))>>,
                       served + 1)
         ELSE /\ UNCHANGED <<connected_port, gdb_client, stubVars>>
              /\ Write(<<ErrorResponse(req, ConnectError(args.debugserver_port, c.err))>>,
                       served + 1)
      /\ Continue
      /\ UNCHANGED <<breakpoints, line_index>>

handle_launch(req) ==
  /\ Read(req)
  /\ IsRequest(req, "launch")
  /\ LET args == ParseLaunchArguments(req.arguments)
     IN  IF args.ok
         THEN \E c \in Connections : connect_debugserver(req, args.val, c)
         ELSE Fail(req, args.err) /\ Quiet
  /\ UNCHANGED initialized

handle_attach(req) ==
  /\ Read(req)
  /\ IsRequest(req, "attach")
  /\ LET args == ParseAttachArguments(req.arguments)
     IN  IF args.ok
         THEN \E c \in Connections : connect_debugserver(req, args.val, c)
         ELSE Fail(req, args.err) /\ Quiet
  /\ UNCHANGED initialized

(***************************************************************************)
(* Backend::update_breakpoints under setBreakpoints.                       *)
(***************************************************************************)
RECURSIVE RemoteAddressesOfEveryLine(_, _, _)
\* The addresses of the ranges of every line, the lines <= 0 included.
RemoteAddressesOfEveryLine(index, path, lines) ==
  IF lines = <<>> THEN <<>>
  ELSE LET Low(ranges) ==
             [i \in 1..Len(ranges) |-> local_to_remote(ranges[i].low, SessionSlide)]
       IN  Low(lookup(index, path, Head(lines)))
             \o RemoteAddressesOfEveryLine(index, path, Tail(lines))

RECURSIVE RemoteAddresses(_, _, _)
\* The addresses update_breakpoints plants for the lines, in order: none for
\* a line <= 0 or a line without ranges, else the low end of each range.
RemoteAddresses(index, path, lines) ==
  IF lines = <<>> THEN <<>>
  ELSE LET Low(ranges) ==
             [i \in 1..Len(ranges) |-> local_to_remote(ranges[i].low, SessionSlide)]
       IN  Low(IF Head(lines) <= 0 THEN <<>> ELSE lookup(index, path, Head(lines)))
             \o RemoteAddresses(index, path, Tail(lines))

RECURSIVE PlantedAfter(_, _)
\* What the stub holds after the packets: "Z0,<address>,1" plants the
\* address, "z0,<address>,1" clears it, any other packet changes nothing.
PlantedAfter(held, packets) ==
  IF packets = <<>> THEN held
  ELSE LET Address(p) == SubSeq(p, 4, Len(p) - 2)
           After(p) ==
             IF StartsWith(p, <<"Z", "0", ",">>) THEN held \cup {Address(p)}
             ELSE IF StartsWith(p, <<"z", "0", ",">>) THEN held \ {Address(p)}
             ELSE held
       IN  PlantedAfter(After(Head(packets)), Tail(packets))

RECURSIVE plant(_, _, _, _)
\* The loop over the ranges with a client: one Z0 per address, stopping at
\* the first failure.  reactions[i] is what the stub sends after the i-th Z0.
plant(addresses, reactions, socket, no_ack_mode) ==
  IF addresses = <<>>
  THEN [ok |-> TRUE, err |-> ErrIo, rest |-> socket, wire |-> <<>>, fed |-> <<>>]
  ELSE LET Planted(r) ==
             IF ~r.ok
             THEN [ok |-> FALSE, err |-> r.err, rest |-> r.rest,
                   wire |-> <<Z0Payload(Head(addresses))>>, fed |-> Head(reactions)]
             ELSE [plant(Tail(addresses), Tail(reactions), r.rest, no_ack_mode)
                     EXCEPT !.wire = <<Z0Payload(Head(addresses))>> \o @,
                            !.fed = Head(reactions) \o @]
       IN  Planted(set_software_breakpoint(socket \o Head(reactions), no_ack_mode,
                                           Head(addresses)))

\* An insert that keeps the entry a key already has.
insert_if_absent(map, key, value) == map @@ (key :> value)

\* HashMap::insert: the entry of the key is set, the others are kept.
insert(map, key, value) == (key :> value) @@ map

\* A body that verifies only the lines a breakpoint can be planted on.
VerifiedWhenPositive(lines) ==
  [breakpoints |-> [i \in 1..Len(lines) |-> [verified |-> lines[i] > 0, line |-> lines[i]]]]

\* The body of the success response: the requested lines, each verified.
VerifiedBreakpoints(lines) ==
  [breakpoints |-> [i \in 1..Len(lines) |-> [verified |-> TRUE, line |-> lines[i]]]]

\* A loop over the ranges that fails when there is no client.
planting_needs_client(req, ok) ==
  /\ Fail(req, "failed to plant breakpoint: no gdb-remote client")
  /\ wire' = <<>>
  /\ UNCHANGED <<sock, frames, eaten, planted>>

\* The loop over the ranges without a client: each range is logged and
\* skipped, and the call returns Ok.
skip_planting(req, ok) ==
  /\ Write(<<ok>>, served + 1)
  /\ Continue
  /\ wire' = <<>>
  /\ UNCHANGED <<sock, frames, eaten, planted>>

\* The table entry is written first; loadable is whether
\* LineIndex::from_binary succeeds when ensure_line_index calls it.
update_breakpoints(req, path, lines, loadable) ==
  /\ breakpoints' = insert(breakpoints, path, lines)
  /\ UNCHANGED <<connected_port, gdb_client, stub_running, stub_output>>
  /\ IF line_index = None /\ ~loadable
     THEN /\ Fail(req, "Failed to build DWARF line index")
          /\ wire' = <<>>
          /\ UNCHANGED <<line_index, sock, frames, eaten, planted>>
     ELSE \E index \in {IF line_index = None THEN TestIndex ELSE Unwrap(line_index)} :
          \E addresses \in {RemoteAddresses(index, path, lines)} :
          LET ok == OkResponse(req, Some(VerifiedBreakpoints(lines)))
          IN  /\ line_index' = Some(index)
              /\ IF gdb_client = None
                 THEN skip_planting(req, ok)
                 ELSE \E reactions \in [1..Len(addresses) ->
                                          ZReactions(Unwrap(gdb_client).no_ack_mode)] :
                        \E r \in {plant(addresses, reactions, sock,
                                         Unwrap(gdb_client).no_ack_mode)} :
                            /\ Consume(r.fed, 0, r.rest, served + 1)
                            /\ wire' = r.wire
                            /\ planted' = PlantedAfter(planted, r.wire)
                            /\ IF r.ok THEN Write(<<ok>>, served + 1) /\ Continue
                               ELSE Fail(req, "failed to plant breakpoint: "
                                                \o ErrorText(r.err))

handle_set_breakpoints(req) ==
  /\ Read(req)
  /\ IsRequest(req, "setBreakpoints")
  /\ LET args == ParseSetBreakpointsArguments(req.arguments)
     IN  IF ~args.ok THEN Fail(req, args.err) /\ Quiet
         ELSE IF args.val.path = None THEN Fail(req, "source.path missing") /\ Quiet
         ELSE \E loadable \in BOOLEAN :
                update_breakpoints(req, Unwrap(args.val.path), args.val.breakpoints,
                                   loadable)
  /\ UNCHANGED initialized

(***************************************************************************)
(* continue, next and stepIn.  Backend::continue and step_over send vCont  *)
(* and then block in wait_for_stop; the handler is split at that point.    *)
(***************************************************************************)
NoConnection == "no gdb-remote connection; call connect_debugserver first"

\* The handler up to wait_for_stop.  `sent` is the result of continue_all or
\* step_thread over the socket followed by the stub's reaction.
resume(req, reaction, sent) ==
  /\ Consume(reaction.bytes, 0, sent.rest, served + 1)
  /\ UNCHANGED planted
  /\ stub_running' = IF reaction.resumes THEN served + 1 ELSE stub_running
  /\ stub_output' = IF reaction.resumes THEN FALSE ELSE stub_output
  /\ IF sent.ok
     THEN /\ pc' = "wait_for_stop"
          /\ UNCHANGED outputVars
     ELSE Fail(req, ErrorText(sent.err))
  /\ UNCHANGED <<backendVars, initialized>>

handle_continue(req) ==
  /\ Read(req)
  /\ IsRequest(req, "continue")
  /\ LET args == ParseThreadArguments(req.arguments, "ThreadArguments")
     IN  IF ~args.ok THEN Fail(req, args.err) /\ Quiet /\ UNCHANGED initialized
         ELSE IF gdb_client = None
         THEN Fail(req, NoConnection) /\ Quiet /\ UNCHANGED initialized
         ELSE \E reaction \in VContReactions(Unwrap(gdb_client).no_ack_mode) :
                /\ wire' = <<VContC>>
                /\ \E sent \in {continue_all(sock \o reaction.bytes,
                                               Unwrap(gdb_client).no_ack_mode)} :
                     resume(req, reaction, sent)

handle_next(req) ==
  /\ Read(req)
  /\ IsRequest(req, "next")
  /\ LET args == ParseThreadArguments(req.arguments, "ThreadArguments")
     IN  IF ~args.ok THEN Fail(req, args.err) /\ Quiet /\ UNCHANGED initialized
         ELSE IF gdb_client = None
         THEN Fail(req, NoConnection) /\ Quiet /\ UNCHANGED initialized
         ELSE \E reaction \in VContReactions(Unwrap(gdb_client).no_ack_mode) :
                /\ wire' = <<VContS>>
                /\ \E sent \in {step_thread(sock \o reaction.bytes,
                                              Unwrap(gdb_client).no_ack_mode, args.val)} :
                     resume(req, reaction, sent)

\* Backend::step_in is step_over.
handle_step_in(req) ==
  /\ Read(req)
  /\ IsRequest(req, "stepIn")
  /\ LET args == ParseThreadArguments(req.arguments, "ThreadArguments")
     IN  IF ~args.ok THEN Fail(req, args.err) /\ Quiet /\ UNCHANGED initialized
         ELSE IF gdb_client = None
         THEN Fail(req, NoConnection) /\ Quiet /\ UNCHANGED initialized
         ELSE \E reaction \in VContReactions(Unwrap(gdb_client).no_ack_mode) :
                /\ wire' = <<VContS>>
                /\ \E sent \in {step_thread(sock \o reaction.bytes,
                                              Unwrap(gdb_client).no_ack_mode, args.val)} :
                     resume(req, reaction, sent)

\* The body of the success response of a resume request.
ResumeBody(command) ==
  IF command = "continue" THEN Some([allThreadsContinued |-> TRUE]) ELSE None

\* One turn of the loop of wait_for_stop and, when it returns, the rest of
\* the handler: a stop reply gives the success response and the stopped
\* event, a packet that is none is skipped, an error gives the failure
\* response, and parse_stop_reply's slice out of range unwinds the process.
wait_for_stop ==
  /\ pc = "wait_for_stop"
  /\ \E packet \in {read_packet(sock, Unwrap(gdb_client).no_ack_mode)} :
     \E parsed \in {parse_stop_reply(packet.payload)} :
         /\ Consume(<<>>, 0, packet.rest, served)
         /\ UNCHANGED planted
         /\ IF ~packet.ok
            THEN Write(<<ErrorResponse(lastReq, ErrorText(packet.err))>>, served) /\ Continue
            ELSE CASE parsed.tag = "some" ->
                        /\ Write(<<OkResponse(lastReq, ResumeBody(lastReq.command)),
                                   StoppedEvent(from_reply(parsed.reply))>>, served)
                        /\ Continue
                   [] parsed.tag = "none" ->
                        UNCHANGED <<pc, outputVars>>
                   [] parsed.tag = "panic" ->
                        /\ pc' = "aborted"
                        /\ UNCHANGED outputVars
  /\ UNCHANGED <<initialized, backendVars, stub_running, stub_output, ide_mode, stdin,
                 written, served, lastReq, wire, result>>

\* A disconnect after which main reads on.
disconnect_and_continue(req) ==
  /\ Read(req)
  /\ IsRequest(req, "disconnect")
  /\ connected_port' = None
  /\ gdb_client' = None
  /\ sock' = <<>>
  /\ frames' = <<>>
  /\ stub_running' = 0
  /\ stub_output' = FALSE
  /\ Write(<<OkResponse(req, None)>>, served + 1)
  /\ Continue
  /\ wire' = <<>>
  /\ planted' = {}
  /\ UNCHANGED <<initialized, breakpoints, line_index, eaten>>

\* A disconnect that drops the client and keeps the recorded port.
disconnect_keeping_port(req) ==
  /\ Read(req)
  /\ IsRequest(req, "disconnect")
  /\ gdb_client' = None
  /\ sock' = <<>>
  /\ frames' = <<>>
  /\ stub_running' = 0
  /\ stub_output' = FALSE
  /\ Write(<<OkResponse(req, None)>>, served + 1)
  /\ pc' = "done"
  /\ wire' = <<>>
  /\ planted' = {}
  /\ UNCHANGED <<initialized, connected_port, breakpoints, line_index, eaten>>

\* Backend::disconnect and the end of main's loop.
handle_disconnect(req) ==
  /\ Read(req)
  /\ IsRequest(req, "disconnect")
  /\ connected_port' = None
  /\ gdb_client' = None
  /\ sock' = <<>>
  /\ frames' = <<>>
  /\ stub_running' = 0
  /\ stub_output' = FALSE
  /\ Write(<<OkResponse(req, None)>>, served + 1)
  /\ pc' = "done"
  /\ wire' = <<>>
  /\ planted' = {}
  /\ UNCHANGED <<initialized, breakpoints, line_index, eaten>>

(***************************************************************************)
(* The environment's own steps.                                            *)
(***************************************************************************)
\* The running target stops, or writes console output (once), and the stub
\* sends the packet.
StubEmit ==
  /\ pc \in {"idle", "wait_for_stop"}
  /\ gdb_client # None
  /\ stub_running # 0
  /\ \E packet \in StubEmissions :
       /\ packet = Frame(ConsoleOutput) => ~stub_output
       /\ sock' = sock \o packet
       /\ frames' = Append(frames, IF packet \in StopFrames THEN stub_running ELSE 0)
       /\ stub_running' = IF packet = Frame(ConsoleOutput) THEN stub_running ELSE 0
       /\ stub_output' = (packet = Frame(ConsoleOutput))
  /\ UNCHANGED <<initialized, outputVars, pc, backendVars, eaten, planted, ide_mode, stdin, written,
                 served, lastReq, wire, result>>

\* A pipelining IDE writes its next message without waiting.
IdeWrite ==
  /\ ide_mode = "pipelined"
  /\ written < MaxRequests
  /\ pc \in {"idle", "wait_for_stop"}
  /\ \E msg \in PipelinedMessages(written + 1) :
       stdin' = Append(stdin, msg)
  /\ written' = written + 1
  /\ UNCHANGED <<initialized, outputVars, pc, backendVars, stubVars, ide_mode, served,
                 lastReq, wire, result>>

\* The IDE reads what main wrote for the last message (and the stub has read
\* its packets); it can do so after main has returned.
IdeRead ==
  /\ pc \in {"idle", "done"}
  /\ lastReq # NoMessage
  /\ stdout' = <<>>
  /\ lastReq' = NoMessage
  /\ wire' = <<>>
  /\ UNCHANGED <<initialized, next_seq, produced, pc, backendVars, stubVars, ide_mode, stdin,
                 written, served, result>>

Next ==
  \/ \E msg \in Requests("initialize") : handle_initialize(msg)
  \/ \E msg \in Requests("launch") : handle_launch(msg)
  \/ \E msg \in Requests("attach") : handle_attach(msg)
  \/ \E msg \in Requests("setBreakpoints") : handle_set_breakpoints(msg)
  \/ \E msg \in Requests("configurationDone") : handle_configuration_done(msg)
  \/ \E msg \in Requests("threads") : handle_threads(msg)
  \/ \E msg \in Requests("stackTrace") : handle_stack_trace(msg)
  \/ \E msg \in Requests("scopes") : handle_scopes(msg)
  \/ \E msg \in Requests("variables") : handle_variables(msg)
  \/ \E msg \in Requests("continue") : handle_continue(msg)
  \/ \E msg \in Requests("next") : handle_next(msg)
  \/ \E msg \in Requests("stepIn") : handle_step_in(msg)
  \/ \E msg \in Requests("disconnect") : handle_disconnect(msg)
  \/ \E msg \in Requests("bogus") : handle_unknown(msg)
  \/ \E msg \in Incoming : main_skip(msg)
  \/ wait_for_stop
  \/ StubEmit
  \/ IdeRead

Spec == Init /\ [][Next]_vars

\* The same session under an IDE that writes ahead.
InitPipelined == InitMode("pipelined")

NextPipelined ==
  \/ \E msg \in Requests("launch") : handle_launch(msg)
  \/ \E msg \in Requests("setBreakpoints") : handle_set_breakpoints(msg)
  \/ \E msg \in Requests("threads") : handle_threads(msg)
  \/ \E msg \in Requests("continue") : handle_continue(msg)
  \/ \E msg \in Requests("disconnect") : handle_disconnect(msg)
  \/ wait_for_stop
  \/ StubEmit
  \/ IdeWrite
  \/ IdeRead
  \/ main_eof

SpecPipelined == InitPipelined /\ [][NextPipelined]_vars

(***************************************************************************)
(* The RSP client on its own: one call of one of its functions over the    *)
(* bytes a peer has sent.  sock is the stream, gdb_client the client and   *)
(* its mode, wire what the call wrote, result the call and what it         *)
(* returned.                                                               *)
(***************************************************************************)
\* The number of packets of a stream.
MaxPackets == 2

\* A frame whose checksum characters are a "+" and a digit, and one whose
\* checksum is in upper case.
PlusFrame(payload) ==
  <<"$">> \o payload \o <<"#", "+">> \o <<HexDigits[(Checksum(payload) % 16) + 1]>>
UpperOK == <<"$", "O", "K", "#", "9", "A">>

\* What a peer sends as one packet: well-formed frames, a frame with a wrong
\* checksum, frames with unusual checksum characters, a frame cut short.
RspPackets ==
  {Frame(ReplyOK), Frame(<<>>), Frame(ReplyE01), Frame(StopS05), Frame(ConsoleOutput),
   Frame(ShortT), BadFrame(ReplyOK), PlusFrame(<<>>), UpperOK, <<"$", "O", "K", "#", "9">>}

RECURSIVE PacketStreams(_)
\* The streams of at most n packets.
PacketStreams(n) ==
  IF n = 0 THEN {<<>>}
  ELSE PacketStreams(n - 1)
         \cup {a \o rest : a \in RspPackets, rest \in PacketStreams(n - 1)}

\* The streams: acknowledgement bytes or noise, then packets.
RspStreams ==
  {pre \o packets : pre \in {<<>>, <<"+">>, <<"-">>, <<"x", "+">>},
                    packets \in PacketStreams(MaxPackets)}

\* The payloads handed to send_packet.
RspPayloads ==
  {Z0Payload(VmaddrText), VContC, QuestionMark, QSupported, <<"c">>, <<"s", "1">>,
   <<"?", "x">>, <<>>}

\* The payloads framed and read back.
RoundTripPayloads ==
  {Z0Payload(VmaddrText), <<>>, ReplyOK, StopT05, <<"a", "$", "b">>, <<"a", "#", "b">>}

\* The packets handed to parse_stop_reply.
StopReplies ==
  {StopS05, StopT05, <<>>, ConsoleOutput, <<"S">>, <<"S", "5">>, <<"S", "x", "y">>,
   <<"S", "0", "5", ";">>, <<"S", "1", "F">>, <<"S", "+", "5">>, ShortT, <<"T", "0">>, <<"T", "0", "5">>,
   <<"T", "z", "5", "t", "h", "r", "e", "a", "d", ":", "1", ";">>,
   <<"T", "0", "b", "r", "e", "a", "s", "o", "n", ":", "s", "i", "n", "g", "l", "e", "-",
     "s", "t", "e", "p", ";", "t", "h", "r", "e", "a", "d", ":", "1", "f">>,
   <<"T", "0", "5", "t", "h", "r", "e", "a", "d", ":", "z", "z", ";">>,
   <<"T", "0", "5", "t", "h", "r", "e", "a", "d", ":", "+", "1", ";">>,
   <<"T", "0", "5", "t", "h", "r", "e", "a", "d", ":", ";">>,
   <<"T", "0", "5", "t", "h", "r", "e", "a", "d", ":">> \o FormatHex(UMax) \o <<";">>,
   <<"T", "0", "5", "0", "0", ":", "1", ";", "r", "e", "a", "s", "o", "n", ":", "t",
     "r", "a", "p", ";">>}

\* The peers of a handshake: those of the sessions, a stub that answers
\* each packet once and does not offer no-ack mode, a peer that rejects
\* qSupported and only acknowledges the stop query, and a stub that sends no
\* stop reply.
RspScripts ==
  HandshakeScripts
    \cup {[banner |-> <<>>,
           after_qsupported |-> <<"+">> \o Frame(<<"x">>),
           after_noack |-> <<"+">> \o Frame(<<>>),
           after_question |-> <<"+">> \o Frame(StopS05)],
          [banner |-> <<>>, after_qsupported |-> <<"-">>, after_noack |-> <<>>,
           after_question |-> <<"+">>],
          [banner |-> <<>>,
           after_qsupported |-> <<"+">> \o Frame(<<"x">>),
           after_noack |-> <<>>,
           after_question |-> <<"+">>]}

InitRsp ==
  /\ next_seq = 1
  /\ initialized = FALSE
  /\ pc = "idle"
  /\ connected_port = Some(Port)
  /\ gdb_client \in {Some([port |-> Port, no_ack_mode |-> m]) : m \in BOOLEAN}
  /\ breakpoints = <<>>
  /\ line_index = None
  /\ sock \in RspStreams
  /\ stub_running = 0
  /\ stub_output = FALSE
  /\ ide_mode = "none"
  /\ stdin = <<>>
  /\ written = 0
  /\ served = 0
  /\ produced = 0
  /\ stdout = <<>>
  /\ lastReq = NoMessage
  /\ wire = <<>>
  /\ frames = <<>>
  /\ eaten = {}
  /\ planted = {}
  /\ result = NoResult

\* What one call leaves alone.
Called ==
  /\ result = NoResult
  /\ UNCHANGED <<sessionVars, pc, connected_port, breakpoints, line_index, stub_running,
                 stub_output, ide_mode, stdin, written, served, produced, stdout, lastReq,
                 frames, eaten, planted>>

RspSendPacket ==
  /\ Called
  /\ \E payload \in RspPayloads :
     \E out \in {send_packet(sock, Unwrap(gdb_client).no_ack_mode, payload)} :
       /\ result' = [op |-> "send_packet", no_ack_mode |-> Unwrap(gdb_client).no_ack_mode,
                     payload |-> payload, stream |-> sock, out |-> out]
       /\ sock' = out.rest
       /\ wire' = <<payload>>
  /\ UNCHANGED gdb_client

RspReadPacket ==
  /\ Called
  /\ \E out \in {read_packet(sock, Unwrap(gdb_client).no_ack_mode)} :
       /\ result' = [op |-> "read_packet", no_ack_mode |-> Unwrap(gdb_client).no_ack_mode,
                     stream |-> sock, out |-> out]
       /\ sock' = out.rest
  /\ UNCHANGED <<gdb_client, wire>>

RECURSIVE wait_for_stop_on(_, _)
\* The loop of wait_for_stop over the bytes of sock: the stop reply, the
\* error of the read that failed, or the panic of parse_stop_reply.
wait_for_stop_on(socket, no_ack_mode) ==
  LET Parsed(packet, parsed) ==
        CASE parsed.tag = "some" ->
               [tag |-> "ok", err |-> ErrIo, reply |-> parsed.reply, rest |-> packet.rest]
          [] parsed.tag = "none" -> wait_for_stop_on(packet.rest, no_ack_mode)
          [] parsed.tag = "panic" ->
               [tag |-> "panic", err |-> ErrIo, reply |-> NoReply, rest |-> packet.rest]
      Turn(packet) ==
        IF ~packet.ok
        THEN [tag |-> "err", err |-> packet.err, reply |-> NoReply, rest |-> packet.rest]
        ELSE Parsed(packet, parse_stop_reply(packet.payload))
  IN  Turn(read_packet(socket, no_ack_mode))

RspWaitForStop ==
  /\ Called
  /\ \E out \in {wait_for_stop_on(sock, Unwrap(gdb_client).no_ack_mode)} :
       /\ result' = [op |-> "wait_for_stop", no_ack_mode |-> Unwrap(gdb_client).no_ack_mode,
                     stream |-> sock, out |-> out]
       /\ sock' = out.rest
  /\ UNCHANGED <<gdb_client, wire>>

RspParseStopReply ==
  /\ Called
  /\ sock = <<>>
  /\ \E reply \in StopReplies :
       result' = [op |-> "parse_stop_reply", reply |-> reply, out |-> parse_stop_reply(reply)]
  /\ UNCHANGED <<gdb_client, sock, wire>>

\* A frame written by send_packet is read back by read_packet.
RspRoundTrip ==
  /\ Called
  /\ sock = <<>>
  /\ \E payload \in RoundTripPayloads :
       result' = [op |-> "round_trip", payload |-> payload, frame |-> Frame(payload),
                  out |-> read_packet(Frame(payload), Unwrap(gdb_client).no_ack_mode)]
  /\ UNCHANGED <<gdb_client, sock, wire>>

\* A stop reply handed to BackendStopEvent::from_reply and on to
\* emit_stop_event, as resume does with what wait_for_stop returned.
RspStopEvent ==
  /\ Called
  /\ sock = <<>>
  /\ \E packet \in StopReplies :
     \E parsed \in {parse_stop_reply(packet)} :
       /\ parsed.tag = "some"
       /\ result' = [op |-> "emit_stop_event", reply |-> parsed.reply,
                     event |-> StoppedEvent(from_reply(parsed.reply))]
  /\ UNCHANGED <<gdb_client, sock, wire>>

RspConnect ==
  /\ Called
  /\ sock = <<>>
  /\ \E script \in RspScripts :
     \E out \in {connect(TRUE, script)} :
       /\ result' = [op |-> "connect", script |-> script, out |-> out]
       /\ gdb_client' = IF out.ok THEN Some([port |-> Port, no_ack_mode |-> out.no_ack_mode])
                        ELSE gdb_client
       /\ sock' = out.rest
       /\ wire' = out.wire

NextRsp ==
  \/ RspSendPacket
  \/ RspReadPacket
  \/ RspWaitForStop
  \/ RspParseStopReply
  \/ RspRoundTrip
  \/ RspStopEvent
  \/ RspConnect

SpecRsp == InitRsp /\ [][NextRsp]_vars

(***************************************************************************)
(* The symbol context and the line index on their own: one call of an      *)
(* address translation or of update_slide_from_remote_text_base, or a line *)
(* index built from the rows of one line program and then looked up.       *)
(* line_index is the index, result the call and what it returned.          *)
(***************************************************************************)
\* The number of rows of a line program.
MaxRows == 3

\* Image.slide and the addresses: small ones, those of the slide test, and
\* the ends of the ranges of i64 and u64.
Slides == {0, 1, -1, 2 * VmaddrText, 0 - 2 * VmaddrText, IMax, IMin + 1, IMin}
Addresses == {0, 1, VmaddrText, 3 * VmaddrText, 3 * VmaddrText + 64, IMax, IMax + 1, UMax}
Offsets == {0, 64, UMax}

\* An operation on integers whose result may leave its type: a build with
\* overflow checks panics, one without keeps the wrapped value.
Arith(overflow_checks, overflows, value) ==
  IF overflow_checks /\ overflows THEN [tag |-> "panic", value |-> 0]
  ELSE [tag |-> "ok", value |-> value]

\* -self.main.slide, taken when the slide is negative.
NegationOverflows(slide) == slide < 0 /\ Overflows(0 - slide)

\* remote_text_base as i64 - vmaddr_text as i64, before it is fitted to an
\* i64.
SlideDifference(vmaddr_text, remote_text_base) == WrapI(remote_text_base) - WrapI(vmaddr_text)

\* Backend::update_slide_from_remote_text_base: the slide it sets.
update_slide_from_remote_text_base(vmaddr_text, remote_text_base) ==
  WrapI(SlideDifference(vmaddr_text, remote_text_base))

OtherFoo == <<"/", "x", "/", "f", ".", "r", "s">>
RowFiles == {FooPath, FooName}
RowLines == {9, 42}
RowAddresses == {VmaddrText, VmaddrText + 4}
LookupPaths == {FooPath, FooName, OtherFoo, BarPath}

\* The rows a line program is made of.
Rows ==
  {Row(file, line, address) : file \in RowFiles, line \in RowLines, address \in RowAddresses}
    \cup {EndSequence(address) : address \in RowAddresses}

RECURSIVE RowPrograms(_)
\* The line programs of at most n rows.
RowPrograms(n) ==
  IF n = 0 THEN {<<>>}
  ELSE RowPrograms(n - 1) \cup {<<row>> \o rest : row \in Rows, rest \in RowPrograms(n - 1)}

InitSymbols ==
  /\ next_seq = 1
  /\ initialized = FALSE
  /\ pc = "idle"
  /\ connected_port = None
  /\ gdb_client = None
  /\ breakpoints = <<>>
  /\ line_index = None
  /\ sock = <<>>
  /\ stub_running = 0
  /\ stub_output = FALSE
  /\ ide_mode = "none"
  /\ stdin = <<>>
  /\ written = 0
  /\ served = 0
  /\ produced = 0
  /\ stdout = <<>>
  /\ lastReq = NoMessage
  /\ wire = <<>>
  /\ frames = <<>>
  /\ eaten = {}
  /\ planted = {}
  /\ result = NoResult

\* What a call on the symbol context or the index leaves alone.
SymbolsOnly ==
  UNCHANGED <<sessionVars, pc, connected_port, gdb_client, breakpoints, stubVars, ide_mode,
              stdin, written, served, produced, stdout, lastReq, wire>>

\* translate_remote_pc, and local_to_remote of what it returned.
SymTranslate ==
  /\ result = NoResult
  /\ \E slide \in Slides, remote_pc \in Addresses, overflow_checks \in BOOLEAN :
     \E out \in {Arith(overflow_checks, NegationOverflows(slide),
                       translate_remote_pc(remote_pc, slide))} :
       result' = [op |-> "translate_remote_pc", slide |-> slide, pc |-> remote_pc,
                  out |-> out,
                  back |-> Arith(overflow_checks, NegationOverflows(slide),
                                 local_to_remote(out.value, slide))]
  /\ SymbolsOnly
  /\ UNCHANGED line_index

\* local_to_remote, and translate_remote_pc of what it returned.
SymLocalToRemote ==
  /\ result = NoResult
  /\ \E slide \in Slides, local_pc \in Addresses, overflow_checks \in BOOLEAN :
     \E out \in {Arith(overflow_checks, NegationOverflows(slide),
                       local_to_remote(local_pc, slide))} :
       result' = [op |-> "local_to_remote", slide |-> slide, pc |-> local_pc,
                  out |-> out,
                  back |-> Arith(overflow_checks, NegationOverflows(slide),
                                 translate_remote_pc(out.value, slide))]
  /\ SymbolsOnly
  /\ UNCHANGED line_index

\* update_slide_from_remote_text_base, then local_to_remote of the text
\* base and translate_remote_pc of addresses above the remote base.
SymUpdateSlide ==
  /\ result = NoResult
  /\ \E vmaddr_text \in Addresses, remote_text_base \in Addresses, overflow_checks \in BOOLEAN :
     \E out \in {Arith(overflow_checks,
                       Overflows(SlideDifference(vmaddr_text, remote_text_base)),
                       update_slide_from_remote_text_base(vmaddr_text, remote_text_base))} :
       result' = [op |-> "update_slide", vmaddr_text |-> vmaddr_text,
                  remote_text_base |-> remote_text_base, out |-> out,
                  remote |-> Arith(overflow_checks, NegationOverflows(out.value),
                                   local_to_remote(vmaddr_text, out.value)),
                  local |-> [k \in Offsets |->
                               Arith(overflow_checks, NegationOverflows(out.value),
                                     translate_remote_pc(WrapU(remote_text_base + k),
                                                         out.value))]]
  /\ SymbolsOnly
  /\ UNCHANGED line_index

\* LineIndex::new_from_dwarf over one unit: an empty map, then
\* consume_line_program.
IndexBuild ==
  /\ result = NoResult
  /\ line_index = None
  /\ \E rows \in RowPrograms(MaxRows) :
       /\ line_index' = Some(consume_line_program(<<>>, rows, None))
       /\ result' = [op |-> "consume_line_program", rows |-> rows]
  /\ SymbolsOnly

IndexLookup ==
  /\ result.op = "consume_line_program"
  /\ \E file \in LookupPaths, line \in RowLines :
       result' = [op |-> "lookup", rows |-> result.rows, file |-> file, line |-> line,
                  out |-> lookup(Unwrap(line_index), file, line)]
  /\ SymbolsOnly
  /\ UNCHANGED line_index

NextSymbols ==
  \/ SymTranslate
  \/ SymLocalToRemote
  \/ SymUpdateSlide
  \/ IndexBuild
  \/ IndexLookup

SpecSymbols == InitSymbols /\ [][NextSymbols]_vars

(***************************************************************************)
(* main.rs: the framing of DAP messages.  Here stdin and stdout are the    *)
(* bytes of the two streams, and a JSON text is the sequence of its bytes. *)
(***************************************************************************)
DecimalDigits == <<"0", "1", "2", "3", "4", "5", "6", "7", "8", "9">>

\* The value of a decimal digit, -1 for any other byte.
DecVal(c) ==
  IF \E i \in 1..10 : DecimalDigits[i] = c
  THEN (CHOOSE i \in 1..10 : DecimalDigits[i] = c) - 1
  ELSE -1

RECURSIVE DecAcc(_, _, _)
DecAcc(s, acc, max) ==
  IF s = <<>> THEN acc
  ELSE IF DecVal(s[1]) < 0 THEN -1
  ELSE IF acc * 10 + DecVal(s[1]) > max THEN -1
  ELSE DecAcc(Tail(s), acc * 10 + DecVal(s[1]), max)

\* str::parse::<usize>(): the value, or -1 for Err.  A leading "+" is
\* accepted; an empty digit string is an error.
parse_usize(s) ==
  LET Digits(d) == IF d = <<>> THEN -1 ELSE DecAcc(d, 0, UMax)
  IN  Digits(IF s # <<>> /\ s[1] = "+" THEN Tail(s) ELSE s)

RECURSIVE DecimalDigitsOf(_)
\* format!("{}", n)
DecimalDigitsOf(n) ==
  IF n < 10 THEN <<DecimalDigits[n + 1]>>
  ELSE DecimalDigitsOf(n \div 10) \o <<DecimalDigits[(n % 10) + 1]>>

RECURSIVE TrimEnd(_, _)
\* str::trim_end_matches
TrimEnd(s, set) ==
  IF s # <<>> /\ s[Len(s)] \in set THEN TrimEnd(SubSeq(s, 1, Len(s) - 1), set) ELSE s

RECURSIVE TrimStart(_, _)
TrimStart(s, set) == IF s # <<>> /\ s[1] \in set THEN TrimStart(Tail(s), set) ELSE s

\* str::trim
Trim(s) == TrimStart(TrimEnd(s, {" ", "\t", "\r", "\n"}), {" ", "\t", "\r", "\n"})

\* BufRead::read_line: the bytes up to and with the first "\n", or all that
\* is left before the end of the input.
read_line(stream) ==
  LET At(i) ==
        IF i = 0 THEN [line |-> stream, rest |-> <<>>]
        ELSE [line |-> SubSeq(stream, 1, i), rest |-> SubSeq(stream, i + 1, Len(stream))]
  IN  At(IndexFrom(stream, "\n", 1))

ContentLengthKey == <<"C", "o", "n", "t", "e", "n", "t", "-", "L", "e", "n", "g", "t", "h",
  ":">>

\* What read_dap_message returns: Ok(None), Ok(Some(payload)) or Err.
ReadNone == [tag |-> "none", kind |-> "", payload |-> <<>>, rest |-> <<>>]
ReadSome(payload, rest) == [tag |-> "some", kind |-> "", payload |-> payload, rest |-> rest]
ReadErr(kind, rest) == [tag |-> "err", kind |-> kind, payload |-> <<>>, rest |-> rest]

\* read_dap_message after the blank line: the body.
read_body(stream, content_length) ==
  IF content_length = None THEN ReadErr("InvalidData", stream)
  ELSE IF Len(stream) < Unwrap(content_length) THEN ReadErr("UnexpectedEof", <<>>)
  ELSE ReadSome(SubSeq(stream, 1, Unwrap(content_length)),
                SubSeq(stream, Unwrap(content_length) + 1, Len(stream)))

RECURSIVE read_headers(_, _)
\* The header loop of read_dap_message: content_length is what the lines
\* read so far have set.
read_headers(stream, content_length) ==
  LET Length(len, rest) ==
        IF len < 0 THEN ReadErr("InvalidData", rest) ELSE read_headers(rest, Some(len))
      Header(line, rest) ==
        IF line = <<>> THEN read_body(rest, content_length)
        ELSE IF StartsWith(line, ContentLengthKey)
        THEN Length(parse_usize(Trim(SubSeq(line, Len(ContentLengthKey) + 1, Len(line)))),
                    rest)
        ELSE read_headers(rest, content_length)
      Line(l) ==
        IF l.line = <<>>
        THEN IF content_length = None THEN ReadNone ELSE ReadErr("UnexpectedEof", <<>>)
        ELSE Header(TrimEnd(l.line, {"\r", "\n"}), l.rest)
  IN  Line(read_line(stream))

read_dap_message(stream) == read_headers(stream, None)

\* A write_dap_message that ends the header line without the blank line.
write_without_blank_line(json) ==
  ContentLengthKey \o <<" ">> \o DecimalDigitsOf(Len(json)) \o <<"\r", "\n">> \o json

\* write_dap_message: the bytes written for a JSON text.
write_dap_message(json) ==
  ContentLengthKey \o <<" ">> \o DecimalDigitsOf(Len(json)) \o <<"\r", "\n", "\r", "\n">>
    \o json

RECURSIVE ReadMessages(_)
\* The loop of main over read_dap_message: the payloads read up to the end
\* of the input, and how the loop ended.
ReadMessages(stream) ==
  LET Next1(out) ==
        IF out.tag = "some"
        THEN [ReadMessages(out.rest) EXCEPT !.payloads = <<out.payload>> \o @]
        ELSE [payloads |-> <<>>, tag |-> out.tag]
  IN  Next1(read_dap_message(stream))

\* The number of messages written in a row.
MaxMessages == 3

\* The values of IOS_LLDB_DAP_CONFIG, and serde_json::from_str of each: a
\* text that is no JSON gives Err.
ConfigWithProgram == "{\"program\":\"/t/app\"}"
ConfigWithProgramAndPort == "{\"program\":\"/t/app\",\"debugserverPort\":12345}"
ConfigTexts ==
  {ConfigWithProgram, ConfigWithProgramAndPort, "{\"program\":1}", "{\"cwd\":\"/t\"}",
   "{}", "null", "[\"program\"]", "", "/t/app", "{\"program\":\"/t/app\""}

config_from_str(raw) ==
  CASE raw = ConfigWithProgram -> ParseOk(JObj([program |-> JStr("/t/app")]))
    [] raw = ConfigWithProgramAndPort ->
         ParseOk(JObj([program |-> JStr("/t/app"), debugserverPort |-> JNum(Port)]))
    [] raw = "{\"program\":1}" -> ParseOk(JObj([program |-> JNum(1)]))
    [] raw = "{\"cwd\":\"/t\"}" -> ParseOk(JObj([cwd |-> JStr("/t")]))
    [] raw = "{}" -> ParseOk(JObj(<<>>))
    [] raw = "null" -> ParseOk(JNull)
    [] raw = "[\"program\"]" -> ParseOk([t |-> "array", v |-> <<JStr("program")>>])
    [] OTHER -> ParseErr("expected value")

\* env::current_exe()
CurrentExe == "/t/ios-lldb-dap"

\* parse_program_from_config: Err for a text that is no JSON, else the
\* program field when it is a string.
parse_program_from_config(raw) ==
  LET Program(value) ==
        IF ~value.ok THEN [ok |-> FALSE, program |-> None]
        ELSE [ok |-> TRUE, program |-> OptString(value.val, "program")]
  IN  Program(config_from_str(raw))

\* init_backend: the program handed to backend_from_program, or the error
\* it returns before that; var is env::var(CONFIG_ENV_VAR).ok().
init_backend(var) ==
  LET FromConfig(parsed) ==
        IF ~parsed.ok THEN [tag |-> "err", kind |-> "InvalidData", program |-> ""]
        ELSE IF IsSome(parsed.program)
        THEN [tag |-> "ok", kind |-> "", program |-> Unwrap(parsed.program)]
        ELSE [tag |-> "ok", kind |-> "", program |-> CurrentExe]
  IN  IF IsSome(var) THEN FromConfig(parse_program_from_config(Unwrap(var)))
      ELSE [tag |-> "ok", kind |-> "", program |-> CurrentExe]

\* JSON texts as serde_json writes them.
JsonEmpty == <<"{", "}">>
JsonEvent ==
  <<"{", "\"", "s", "e", "q", "\"", ":", "1", ",", "\"", "t", "y", "p",
    "e", "\"", ":", "\"", "e", "v", "e", "n", "t", "\"", ",", "\"", "e",
    "v", "e", "n", "t", "\"", ":", "\"", "i", "n", "i", "t", "i", "a",
    "l", "i", "z", "e", "d", "\"", "}">>
JsonTen == <<"{", "\"", "s", "e", "q", "\"", ":", "2", "2", "}">>
JsonHeaderText ==
  <<"{", "\"", "m", "e", "s", "s", "a", "g", "e", "\"", ":", "\"", "C",
    "o", "n", "t", "e", "n", "t", "-", "L", "e", "n", "g", "t", "h", ":",
    " ", "1", "\"", "}">>
JsonTexts == {JsonEmpty, JsonEvent, JsonTen, JsonHeaderText}

HeaderOther == <<"X", "-", "T", "r", "a", "c", "e", ":", " ", "1">>
CRLF == <<"\r", "\n">>

\* What stdin holds when the IDE closes it: nothing, whole messages, and
\* messages cut off in the header block or in the body.
DapInputs ==
  {<<>>,
   write_dap_message(JsonEmpty),
   write_dap_message(JsonEmpty) \o write_dap_message(JsonTen),
   ContentLengthKey \o <<" ", "2">> \o CRLF,
   ContentLengthKey \o <<" ", "2">>,
   HeaderOther \o CRLF,
   HeaderOther,
   SubSeq(ContentLengthKey, 1, 11),
   HeaderOther \o CRLF \o ContentLengthKey \o <<" ", "2">> \o CRLF,
   HeaderOther \o CRLF \o write_dap_message(JsonEmpty),
   write_dap_message(JsonEmpty) \o HeaderOther \o CRLF,
   write_dap_message(JsonEmpty) \o ContentLengthKey \o <<" ", "2">> \o CRLF,
   CRLF \o JsonEmpty,
   ContentLengthKey \o <<" ", "x">> \o CRLF \o CRLF \o JsonEmpty,
   ContentLengthKey \o <<"+", "2">> \o CRLF \o CRLF \o JsonEmpty,
   ContentLengthKey \o <<" ", "5">> \o CRLF \o CRLF \o JsonEmpty}

InitFraming ==
  /\ next_seq = 1
  /\ initialized = FALSE
  /\ pc = "idle"
  /\ connected_port = None
  /\ gdb_client = None
  /\ breakpoints = <<>>
  /\ line_index = None
  /\ sock = <<>>
  /\ stub_running = 0
  /\ stub_output = FALSE
  /\ ide_mode = "none"
  /\ stdin \in DapInputs
  /\ written = 0
  /\ served = 0
  /\ produced = 0
  /\ stdout = <<>>
  /\ lastReq = NoMessage
  /\ wire = <<>>
  /\ frames = <<>>
  /\ eaten = {}
  /\ planted = {}
  /\ result = NoResult

\* What a call on a stream leaves alone.
StreamsOnly ==
  UNCHANGED <<sessionVars, pc, backendVars, stubVars, ide_mode, written, served, lastReq,
              wire>>

\* One call of read_dap_message on stdin; main calls it again after a
\* message.
FrameRead ==
  /\ result.op \in {"none", "read_dap_message"}
  /\ result.op = "read_dap_message" => result.out.tag = "some"
  /\ stdout = <<>>
  /\ \E out \in {read_dap_message(stdin)} :
       /\ result' = [op |-> "read_dap_message", stream |-> stdin, out |-> out]
       /\ stdin' = out.rest
  /\ StreamsOnly
  /\ UNCHANGED <<produced, stdout>>

\* One call of write_dap_message on stdout.
FrameWrite ==
  /\ result.op \in {"none", "write_dap_message"}
  /\ stdin = <<>>
  /\ produced < MaxMessages
  /\ \E json \in JsonTexts :
       /\ stdout' = stdout \o write_dap_message(json)
       /\ result' = [op |-> "write_dap_message", json |-> json,
                     bytes |-> write_dap_message(json),
                     jsons |-> IF result.op = "none" THEN <<json>>
                               ELSE Append(result.jsons, json)]
  /\ produced' = produced + 1
  /\ StreamsOnly
  /\ UNCHANGED stdin

\* What was written to stdout is read with read_dap_message, to its end.
FrameReadBack ==
  /\ result.op = "write_dap_message"
  /\ result' = [op |-> "read_back", jsons |-> result.jsons, out |-> ReadMessages(stdout)]
  /\ StreamsOnly
  /\ UNCHANGED <<stdin, produced, stdout>>

\* main before the first message: init_backend under one value of the
\* environment variable.
StartUp ==
  /\ result = NoResult
  /\ stdin = <<>>
  /\ \E var \in {None} \cup {Some(raw) : raw \in ConfigTexts} :
       result' = [op |-> "init_backend", var |-> var, out |-> init_backend(var)]
  /\ StreamsOnly
  /\ UNCHANGED <<stdin, produced, stdout>>

NextFraming ==
  \/ StartUp
  \/ FrameRead
  \/ FrameWrite
  \/ FrameReadBack

SpecFraming == InitFraming /\ [][NextFraming]_vars

(***************************************************************************)
(* Properties.                                                             *)
(***************************************************************************)
ResumeCommands == {"continue", "next", "stepIn"}

\* The messages on stdout that the message read last caused.
Batch ==
  [i \in 1..Len(SelectSeq(stdout, LAMBDA e : e.cause = served)) |->
     SelectSeq(stdout, LAMBDA e : e.cause = served)[i].msg]

\* The handler of a request has returned and the IDE has not read its output.
Returned == pc \in {"idle", "done"} /\ lastReq.kind = "request"

\* main has just read a request with the given command.
Reads(command) ==
  /\ served' = served + 1
  /\ lastReq'.kind = "request"
  /\ lastReq'.command = command

IsResponse(m, req, success) ==
  /\ m.type = "response"
  /\ m.request_seq = req.seq
  /\ m.command = req.command
  /\ m.success = success

\* C1: the k-th message written to stdout carries seq k (so the first seq is
\* 1 and the seqs increase strictly), and next_seq is one more than the
\* number of messages written.
SeqCountsMessages ==
  /\ next_seq = produced + 1
  /\ \A i \in 1..Len(stdout) : stdout[i].msg.seq = produced - Len(stdout) + i

SeqCountsMessagesWitness ==
  /\ produced >= 4
  /\ Len(stdout) = 2
  /\ stdout[2].msg.seq = produced

\* C2: the session never aborts, and when the handler of a request has
\* returned, stdout holds exactly one response to it, with the request's seq
\* as request_seq and its command.
EveryRequestAnswered ==
  /\ pc # "aborted"
  /\ Returned =>
       /\ Cardinality({i \in 1..Len(Batch) : Batch[i].type = "response"}) = 1
       /\ \A i \in 1..Len(Batch) :
            Batch[i].type = "response" =>
              Batch[i].request_seq = lastReq.seq /\ Batch[i].command = lastReq.command

\* C3: a request with an unknown command gets one failure response with the
\* message "Unknown command: <name>", changes neither the Backend nor the
\* socket nor the initialized flag, and main reads on.
UnknownCommandRejected ==
  [][(served' = served + 1 /\ lastReq'.kind = "request" /\ lastReq'.command \notin Commands)
       => /\ stdout' = Append(stdout,
                 [cause |-> served',
                  msg |-> [Response(lastReq'.seq, lastReq'.command, FALSE, None,
                                    Some("Unknown command: " \o lastReq'.command))
                             EXCEPT !.seq = next_seq]])
          /\ UNCHANGED <<backendVars, stubVars, initialized>>
          /\ pc' = "idle"]_vars

UnknownCommandWitness ==
  /\ Returned
  /\ lastReq.command = "bogus"
  /\ served >= 2
  /\ gdb_client # None
  /\ Len(Batch) = 1
  /\ Batch[1].message = Some("Unknown command: bogus")

\* C4: initialize sets the initialized flag and writes a success response
\* whose body has supportsConfigurationDoneRequest = true, immediately
\* followed by the initialized event with a greater seq; no step clears the
\* flag.
InitializeAnnounced ==
  [][/\ Reads("initialize") =>
          /\ initialized'
          /\ Len(stdout') = Len(stdout) + 2
          /\ IsResponse(stdout'[Len(stdout) + 1].msg, lastReq', TRUE)
          /\ stdout'[Len(stdout) + 1].msg.body = Some([supportsConfigurationDoneRequest |-> TRUE])
          /\ stdout'[Len(stdout) + 2].msg.type = "event"
          /\ stdout'[Len(stdout) + 2].msg.event = "initialized"
          /\ stdout'[Len(stdout) + 2].msg.seq > stdout'[Len(stdout) + 1].msg.seq
     /\ initialized => initialized']_vars

InitializeAnnouncedWitness ==
  /\ Returned
  /\ lastReq.command = "initialize"
  /\ initialized
  /\ Len(Batch) = 2
  /\ Batch[2].event = "initialized"
  /\ served >= 2

\* C5: when the handler of continue, next or stepIn has returned, stdout
\* holds for it either one failure response and nothing else, or one success
\* response immediately followed by exactly one stopped event; nothing is
\* written for it while it waits for the stop, and a stopped event never
\* appears anywhere else.
ResumeOutcome ==
  /\ pc = "wait_for_stop" => Batch = <<>>
  /\ (Returned /\ lastReq.command \in ResumeCommands) =>
       \/ Len(Batch) = 1 /\ IsResponse(Batch[1], lastReq, FALSE)
       \/ /\ Len(Batch) = 2
          /\ IsResponse(Batch[1], lastReq, TRUE)
          /\ Batch[2].type = "event"
          /\ Batch[2].event = "stopped"
          /\ Batch[2].seq = Batch[1].seq + 1
  /\ \A i \in 1..Len(stdout) :
       (stdout[i].msg.type = "event" /\ stdout[i].msg.event = "stopped") =>
         /\ i > 1
         /\ stdout[i - 1].cause = stdout[i].cause
         /\ stdout[i - 1].msg.type = "response"
         /\ stdout[i - 1].msg.success
         /\ stdout[i - 1].msg.command \in ResumeCommands

ResumeOutcomeWitness ==
  /\ Returned
  /\ lastReq.command = "next"
  /\ Len(Batch) = 2
  /\ Batch[2].event = "stopped"
  /\ Batch[2].body = Some([reason |-> "breakpoint", description |-> "Breakpoint hit",
                           threadId |-> 1])

\* C6: disconnect drops the RSP connection and the port, writes one success
\* response without a body and ends main's loop; after that no message is
\* read, nothing is written and the Backend stays as it is, whatever waits
\* on stdin.
DisconnectEndsSession ==
  [][/\ Reads("disconnect") =>
          /\ connected_port' = None
          /\ gdb_client' = None
          /\ pc' = "done"
          /\ stdout' = Append(stdout, [cause |-> served',
                                       msg |-> [OkResponse(lastReq', None)
                                                  EXCEPT !.seq = next_seq]])
     /\ pc = "done" =>
          /\ pc' = "done"
          /\ UNCHANGED <<served, stdin, produced, next_seq, backendVars, sock>>]_vars

DisconnectEndsSessionWitness ==
  /\ pc = "done"
  /\ lastReq.command = "disconnect"
  /\ stdin # <<>>
  /\ connected_port = None
  /\ Len(stdout) >= 2
  /\ stdout[1].msg.command = "launch"
  /\ stdout[1].msg.success

\* C7: the messages are read one at a time in the order the IDE wrote them,
\* and the output is in that order; while a resume request is blocked in
\* wait_for_stop nothing is written, the messages behind it stay on stdin,
\* and a disconnect among them has not dropped the connection.
ServedInArrivalOrder ==
  /\ \A i \in 1..Len(stdin) : stdin[i].seq = IdeSeq(served + i)
  /\ lastReq # NoMessage => lastReq.seq = IdeSeq(served)
  /\ \A i \in 1..Len(stdout) :
       /\ stdout[i].cause <= served
       /\ stdout[i].msg.type = "response" => stdout[i].msg.request_seq = IdeSeq(stdout[i].cause)
       /\ i > 1 => stdout[i - 1].cause <= stdout[i].cause
  /\ pc = "wait_for_stop" =>
       /\ Batch = <<>>
       /\ gdb_client # None
       /\ connected_port # None

ServedInArrivalOrderWitness ==
  /\ pc = "wait_for_stop"
  /\ stdin # <<>>
  /\ Head(stdin).command = "disconnect"
  /\ lastReq.command = "continue"

\* C8: a stop reply the stub sends for a resume request is read by the
\* wait_for_stop of that request (which reports it as the request's stopped
\* event), never by a later request.
StopReplyReachesItsRequest == \A e \in eaten : e.by = e.owner

\* C9: a setBreakpoints request whose arguments name a path sets the table
\* entry of that path to the requested lines, whether it succeeds or fails,
\* and leaves every other entry as it was; no other step changes the table.
BreakpointTableTracksLastCall ==
  [][IF /\ Reads("setBreakpoints")
        /\ ParseSetBreakpointsArguments(lastReq'.arguments).ok
        /\ ParseSetBreakpointsArguments(lastReq'.arguments).val.path # None
     THEN /\ DOMAIN breakpoints' =
               DOMAIN breakpoints
                 \cup {Unwrap(ParseSetBreakpointsArguments(lastReq'.arguments).val.path)}
          /\ breakpoints'[Unwrap(ParseSetBreakpointsArguments(lastReq'.arguments).val.path)]
               = ParseSetBreakpointsArguments(lastReq'.arguments).val.breakpoints
          /\ \A other \in DOMAIN breakpoints :
               other # Unwrap(ParseSetBreakpointsArguments(lastReq'.arguments).val.path)
                 => breakpoints'[other] = breakpoints[other]
     ELSE breakpoints' = breakpoints]_vars

BreakpointTableWitness ==
  /\ Returned
  /\ lastReq.command = "setBreakpoints"
  /\ Len(Batch) = 1
  /\ ~Batch[1].success
  /\ wire # <<>>
  /\ DOMAIN breakpoints = {FooPath, BarPath}
  /\ breakpoints[FooPath] = <<9>>

\* C10: the body of a successful setBreakpoints response lists the requested
\* breakpoints in order, each with its requested line and verified = true,
\* whatever the lines resolve to and with or without a connection.
EveryBreakpointVerified ==
  (Returned /\ lastReq.command = "setBreakpoints" /\ Len(Batch) = 1 /\ Batch[1].success) =>
    Batch[1].body =
      Some([breakpoints |->
              [i \in 1..Len(ParseSetBreakpointsArguments(lastReq.arguments).val.breakpoints) |->
                 [verified |-> TRUE,
                  line |-> ParseSetBreakpointsArguments(lastReq.arguments).val.breakpoints[i]]]])

EveryBreakpointVerifiedWitness ==
  /\ Returned
  /\ lastReq.command = "setBreakpoints"
  /\ Len(Batch) = 1
  /\ Batch[1].success
  /\ ParseSetBreakpointsArguments(lastReq.arguments).val.breakpoints = <<0, 7, 42>>
  /\ gdb_client # None
  /\ Len(wire) = 1

\* The path and the lines of a setBreakpoints request whose arguments parse.
PathOf(req) == Unwrap(ParseSetBreakpointsArguments(req.arguments).val.path)
LinesOf(req) == ParseSetBreakpointsArguments(req.arguments).val.breakpoints

\* main has just read a setBreakpoints request that reaches update_breakpoints.
ReadsUpdate ==
  /\ Reads("setBreakpoints")
  /\ ParseSetBreakpointsArguments(lastReq'.arguments).ok
  /\ ParseSetBreakpointsArguments(lastReq'.arguments).val.path # None

\* C11: without an RSP connection, an update_breakpoints for which the line
\* index is available succeeds (one success response), writes no packet,
\* reads nothing from a socket, and sets the table entry of the path to the
\* requested lines.
UnconnectedUpdateSucceeds ==
  [][(ReadsUpdate /\ gdb_client = None /\ line_index' # None)
       => /\ wire' = <<>>
          /\ UNCHANGED <<sock, gdb_client, connected_port>>
          /\ Len(stdout') = Len(stdout) + 1
          /\ IsResponse(stdout'[Len(stdout')].msg, lastReq', TRUE)
          /\ breakpoints'[PathOf(lastReq')] = LinesOf(lastReq')]_vars

UnconnectedUpdateWitness ==
  /\ Returned
  /\ lastReq.command = "setBreakpoints"
  /\ gdb_client = None
  /\ line_index # None
  /\ Len(Batch) = 1
  /\ Batch[1].success
  /\ wire = <<>>
  /\ FooPath \in DOMAIN breakpoints
  /\ breakpoints[FooPath] = <<0, 7, 42>>

\* The Z0 packets of one line: none for a line <= 0, else one per range of
\* the line, in bucket order, for the low end of the range.
Z0For(index, path, line) ==
  IF line <= 0 THEN <<>>
  ELSE [i \in 1..Len(lookup(index, path, line)) |->
          <<"Z", "0", ",">>
            \o FormatHex(local_to_remote(lookup(index, path, line)[i].low, SessionSlide))
            \o <<",", "1">>]

RECURSIVE ExpectedZ0(_, _, _)
ExpectedZ0(index, path, lines) ==
  IF lines = <<>> THEN <<>>
  ELSE Z0For(index, path, Head(lines)) \o ExpectedZ0(index, path, Tail(lines))

\* C12, as stated: with an RSP connection, update_breakpoints sends one Z0
\* packet for each range of each line > 0, in order.
EveryRangePlanted ==
  [][(ReadsUpdate /\ gdb_client # None /\ line_index' # None)
       => wire' = ExpectedZ0(Unwrap(line_index'), PathOf(lastReq'), LinesOf(lastReq'))]_vars

\* C12: with an RSP connection, update_breakpoints sends the Z0 packets of
\* the ranges of the lines > 0, in list and bucket order, up to and including
\* the first one that fails; when none fails all of them are sent and the
\* call succeeds.  Lines <= 0 and lines without ranges cause no packet and no
\* failure.
RangesPlantedUntilFailure ==
  [][(ReadsUpdate /\ gdb_client # None /\ line_index' # None)
       => /\ Len(wire') <= Len(ExpectedZ0(Unwrap(line_index'), PathOf(lastReq'),
                                          LinesOf(lastReq')))
          /\ wire' = SubSeq(ExpectedZ0(Unwrap(line_index'), PathOf(lastReq'),
                                       LinesOf(lastReq')), 1, Len(wire'))
          /\ Len(stdout') = Len(stdout) + 1
          /\ IF stdout'[Len(stdout')].msg.success
             THEN wire' = ExpectedZ0(Unwrap(line_index'), PathOf(lastReq'), LinesOf(lastReq'))
             ELSE wire' # <<>>]_vars

RangesPlantedWitness ==
  /\ Returned
  /\ lastReq.command = "setBreakpoints"
  /\ gdb_client # None
  /\ ParseSetBreakpointsArguments(lastReq.arguments).ok
  /\ LinesOf(lastReq) = <<9>>
  /\ Len(Batch) = 1
  /\ Batch[1].success
  /\ wire = <<Z0Payload(VmaddrText + 4), Z0Payload(VmaddrText + 16)>>

\* The texts of the protocol errors: a bad checksum, an ack byte that is no
\* "+", and a reply other than OK or the empty packet.
ProtocolErrorTexts ==
  LET errors == {ErrBadChecksum} \cup {ErrUnexpectedReply(c) : c \in Chars}
                  \cup {ErrRemote(p) : p \in {ReplyE01, StopS05, StopT05, ShortT,
                                               ConsoleOutput, QStartNoAckModePlus}}
  IN  {ErrorText(e) : e \in errors}
        \cup {"failed to plant breakpoint: " \o ErrorText(e) : e \in errors}

\* C13: when setBreakpoints, continue, next or stepIn has failed with a
\* protocol error, the response carries the error text, the Backend still
\* has its connection and port, main reads on, and the next exchange the
\* stub answers well (acknowledging a Z0 and replying OK, acknowledging a
\* vCont) succeeds.
ProtocolErrorSurvived ==
  (/\ Returned
   /\ lastReq.command \in {"setBreakpoints"} \cup ResumeCommands
   /\ Len(Batch) = 1
   /\ ~Batch[1].success
   /\ Batch[1].message \in {Some(t) : t \in ProtocolErrorTexts})
    => /\ pc = "idle"
       /\ gdb_client # None
       /\ connected_port # None
       /\ set_software_breakpoint(
            sock \o StubAck(Unwrap(gdb_client).no_ack_mode) \o Frame(ReplyOK),
            Unwrap(gdb_client).no_ack_mode, VmaddrText).ok
       /\ continue_all(sock \o StubAck(Unwrap(gdb_client).no_ack_mode),
                       Unwrap(gdb_client).no_ack_mode).ok

\* C14: a launch or attach that succeeds leaves the Backend with the port of
\* the request and with one client, the new one: its mode and its socket are
\* those of a fresh connection, whatever client and unread bytes the Backend
\* had before (so a repeated launch/attach gives the state one gives); the
\* table and the line index are kept.  One that fails changes nothing.
ConnectReplaces ==
  [][(Reads("launch") \/ Reads("attach")) =>
       /\ Len(stdout') = Len(stdout) + 1
       /\ UNCHANGED <<breakpoints, line_index>>
       /\ IF stdout'[Len(stdout')].msg.success
          THEN /\ connected_port' = Some(lastReq'.arguments.f.debugserverPort.v)
               /\ gdb_client' # None
               /\ Unwrap(gdb_client').port = lastReq'.arguments.f.debugserverPort.v
               /\ \E c \in Connections :
                    /\ c.ok
                    /\ Unwrap(gdb_client').no_ack_mode = c.no_ack_mode
                    /\ sock' = c.rest
               /\ \A i \in 1..Len(frames') : frames'[i] = 0
               /\ stub_running' = 0
          ELSE UNCHANGED <<connected_port, gdb_client, sock>>]_vars

ConnectReplacesWitness ==
  /\ Returned
  /\ lastReq.command = "attach"
  /\ Len(Batch) = 1
  /\ Batch[1].success
  /\ eaten # {}
  /\ connected_port = Some(Port)

\* C15: against a stub that sends one reply packet per request, connect ends
\* in no-ack mode exactly when the reply to qSupported contains
\* QStartNoAckMode+ and the reply to QStartNoAckMode is OK.
NoAckNegotiated ==
  result.op = "connect" =>
    \A q \in {QStartNoAckModePlus, <<"x">>} : \A n \in {ReplyOK, <<>>} :
      (/\ result.script.after_qsupported = <<"+">> \o Frame(q)
       /\ result.script.after_noack = <<"+">> \o Frame(n))
        => /\ result.out.ok
           /\ result.out.no_ack_mode = (Contains(q, QStartNoAckModePlus) /\ n = ReplyOK)

\* C16: in ack mode send_packet takes exactly one byte as acknowledgement
\* and fails with UnexpectedReply when it is not "+"; in no-ack mode it takes
\* none.  Then, for a payload that starts with v, c or s or is "?", it reads
\* nothing more and returns no reply; for any other payload it reads exactly
\* one packet (the bytes before its "$" included) and returns its payload.
SendPacketConsumes ==
  result.op = "send_packet" =>
    LET OnePacket(t, payload, k) ==
          /\ k >= Len(payload) + 4
          /\ result.out.rest = SubSeq(t, k + 1, Len(t))
          /\ SubSeq(t, k - Len(payload) - 3, k - 2) = <<"$">> \o payload \o <<"#">>
          /\ \A i \in 1..(k - Len(payload) - 4) : t[i] # "$"
          /\ \A i \in 1..Len(payload) : payload[i] # "#"
        AfterAck(t) ==
          IF \/ result.payload # <<>> /\ result.payload[1] \in {"v", "c", "s"}
             \/ result.payload = <<"?">>
          THEN /\ result.out.ok
               /\ result.out.reply = None
               /\ result.out.rest = t
          ELSE result.out.ok =>
                 /\ result.out.reply # None
                 /\ OnePacket(t, Unwrap(result.out.reply), Len(t) - Len(result.out.rest))
    IN  IF result.no_ack_mode THEN AfterAck(result.stream)
        ELSE IF result.stream = <<>>
        THEN ~result.out.ok /\ result.out.err.kind = "Io"
        ELSE IF result.stream[1] # "+"
        THEN /\ ~result.out.ok
             /\ result.out.err = [kind |-> "UnexpectedReply", text |-> <<result.stream[1]>>]
             /\ result.out.rest = Tail(result.stream)
        ELSE AfterAck(Tail(result.stream))

SendPacketConsumesWitness ==
  /\ result.op = "send_packet"
  /\ ~result.no_ack_mode
  /\ result.payload = Z0Payload(VmaddrText)
  /\ result.stream = <<"+">> \o Frame(ReplyOK) \o Frame(StopS05)
  /\ result.out.ok
  /\ result.out.reply = Some(ReplyOK)
  /\ sock = Frame(StopS05)

\* C17: over a stream that holds a whole frame, read_packet skips the bytes
\* before the first "$" and takes the bytes up to the next "#" as payload;
\* when the two characters after it are not the hex digits of the payload's
\* byte sum mod 256 it fails with BadChecksum and writes no "+"; when they
\* are, it returns the payload and writes one "+" in ack mode and none in
\* no-ack mode.
ReadPacketChecks ==
  result.op = "read_packet" =>
    LET Framed(s, dollar, hash) ==
          (dollar > 0 /\ hash > 0 /\ Len(s) >= hash + 2) =>
            IF /\ HexVal(s[hash + 1]) = ByteSum(SubSeq(s, dollar + 1, hash - 1)) \div 16
               /\ HexVal(s[hash + 2]) = ByteSum(SubSeq(s, dollar + 1, hash - 1)) % 16
            THEN /\ result.out.ok
                 /\ result.out.payload = SubSeq(s, dollar + 1, hash - 1)
                 /\ result.out.rest = SubSeq(s, hash + 3, Len(s))
                 /\ result.out.acks = IF result.no_ack_mode THEN 0 ELSE 1
            ELSE /\ ~result.out.ok
                 /\ result.out.err.kind = "BadChecksum"
                 /\ result.out.acks = 0
        Started(s, dollar) ==
          Framed(s, dollar, IF dollar = 0 THEN 0 ELSE IndexFrom(s, "#", dollar + 1))
    IN  Started(result.stream, IndexFrom(result.stream, "$", 1))

\* C18: reading back the frame send_packet writes for a payload gives the
\* payload, without a checksum error; the frame of Z0,1000,1 is
\* $Z0,1000,1#d4.
FrameRoundTrip ==
  result.op = "round_trip" =>
    /\ result.out.ok
    /\ result.out.payload = result.payload
    /\ result.payload = <<"Z", "0", ",", "1", "0", "0", "0", ",", "1">> =>
         result.frame = <<"$", "Z", "0", ",", "1", "0", "0", "0", ",", "1", "#", "d", "4">>

\* C19: over a stream of two well-formed packets, wait_for_stop returns the
\* first one parse_stop_reply accepts, the packets before it read and
\* discarded and the ones after it left in the stream; when it accepts
\* neither, the read after the last packet times out and wait_for_stop
\* returns that error.  A stream that starts with a corrupted frame gives
\* the checksum error.
WaitReturnsFirstStop ==
  result.op = "wait_for_stop" =>
    /\ \A a, b \in {ReplyOK, <<>>, ReplyE01, StopS05, ConsoleOutput, ShortT} :
         result.stream = Frame(a) \o Frame(b) =>
           IF parse_stop_reply(a).tag = "some"
           THEN /\ result.out.tag = "ok"
                /\ result.out.reply = parse_stop_reply(a).reply
                /\ result.out.rest = Frame(b)
           ELSE IF parse_stop_reply(b).tag = "some"
           THEN /\ result.out.tag = "ok"
                /\ result.out.reply = parse_stop_reply(b).reply
                /\ result.out.rest = <<>>
           ELSE /\ result.out.tag = "err"
                /\ result.out.err.kind = "Io"
    /\ StartsWith(result.stream, BadFrame(ReplyOK)) =>
         /\ result.out.tag = "err"
         /\ result.out.err.kind = "BadChecksum"

\* The value of a string of hex digits, -1 for the empty string and for one
\* with any other byte.
HexValue(v) ==
  IF v # <<>> /\ \A i \in 1..Len(v) : HexVal(v[i]) >= 0 THEN HexAcc(v, 0, UMax) ELSE -1

\* The value of the key among the ";"-separated parts: None when no part
\* starts with the key, else what follows the key in the last such part.
ValueOf(parts, key) ==
  LET Last(hits) ==
        IF hits = {} THEN None
        ELSE Some(SubSeq(parts[CHOOSE i \in hits : \A j \in hits : j <= i],
                         Len(key) + 1,
                         Len(parts[CHOOSE i \in hits : \A j \in hits : j <= i])))
  IN  Last({i \in 1..Len(parts) : StartsWith(parts[i], key)})

\* C20: parse_stop_reply maps "S" and two hex digits xx to signal xx, no
\* thread and the reason Signal; it maps "T", two hex digits xx and
\* ";"-separated key:value pairs to signal xx, the hex value of the thread
\* key as thread (none when the key is absent or its value is not hex), and
\* the reason Breakpoint for reason:breakpoint, Step for reason:single-step,
\* Unknown(word) for another word, Unknown("signal") without a reason key.
ParsesAsSpecified ==
  result.op = "parse_stop_reply" =>
    LET Reason(word) ==
          IF word = None THEN [kind |-> "Unknown", text |-> <<"s", "i", "g", "n", "a", "l">>]
          ELSE IF Unwrap(word) = <<"b", "r", "e", "a", "k", "p", "o", "i", "n", "t">>
          THEN [kind |-> "Breakpoint", text |-> <<>>]
          ELSE IF Unwrap(word) = <<"s", "i", "n", "g", "l", "e", "-", "s", "t", "e", "p">>
          THEN [kind |-> "Step", text |-> <<>>]
          ELSE [kind |-> "Unknown", text |-> Unwrap(word)]
        Thread(id) ==
          IF id = None \/ HexValue(Unwrap(id)) < 0 THEN None ELSE Some(HexValue(Unwrap(id)))
        Described(r, parts) ==
          /\ result.out.tag = "some"
          /\ result.out.reply.signal = 16 * HexVal(r[2]) + HexVal(r[3])
          /\ result.out.reply.thread_id = Thread(ValueOf(parts, ThreadKey))
          /\ result.out.reply.reason = Reason(ValueOf(parts, ReasonKey))
        Mapped(r) ==
          (Len(r) >= 3 /\ HexVal(r[2]) >= 0 /\ HexVal(r[3]) >= 0) =>
            /\ r[1] = "S" =>
                 /\ result.out.tag = "some"
                 /\ result.out.reply =
                      [signal |-> 16 * HexVal(r[2]) + HexVal(r[3]), thread_id |-> None,
                       reason |-> [kind |-> "Signal", text |-> <<>>]]
            /\ r[1] = "T" => Described(r, Split(SubSeq(r, 4, Len(r)), ";"))
    IN  Mapped(result.reply)

\* A well-formed stop reply: "S" or "T" and two hex digits, then anything.
WellFormedStop(reply) ==
  /\ Len(reply) >= 3
  /\ reply[1] \in {"S", "T"}
  /\ HexVal(reply[2]) >= 0
  /\ HexVal(reply[3]) >= 0

\* C21: for every payload that is not a well-formed S or T stop reply,
\* parse_stop_reply returns None without aborting, and wait_for_stop goes on
\* to the packet after it.
MalformedStopIsNone ==
  /\ result.op = "parse_stop_reply" =>
       (~WellFormedStop(result.reply) => result.out.tag = "none")
  /\ result.op = "wait_for_stop" =>
       \A a, b \in {ReplyOK, <<>>, ReplyE01, StopS05, ConsoleOutput, ShortT} :
         (result.stream = Frame(a) \o Frame(b) /\ ~WellFormedStop(a) /\ WellFormedStop(b)) =>
           /\ result.out.tag = "ok"
           /\ result.out.reply = parse_stop_reply(b).reply

\* C22: the stopped event built from a stop reply has the reply's thread id
\* as threadId, 1 when the reply has none, and the reason and description
\* of the reply's reason: breakpoint / Breakpoint hit, step / Step
\* completed, signal / Signal n, stopped / the word of an unknown reason.
StoppedEventDescribesReply ==
  result.op = "emit_stop_event" =>
    LET Describes(reply, body) ==
          /\ body.threadId = IF reply.thread_id = None THEN 1 ELSE Unwrap(reply.thread_id)
          /\ <<body.reason, body.description>> =
               CASE reply.reason.kind = "Breakpoint" -> <<"breakpoint", "Breakpoint hit">>
                 [] reply.reason.kind = "Step" -> <<"step", "Step completed">>
                 [] reply.reason.kind = "Signal" ->
                      <<"signal", "Signal " \o ToString(reply.signal)>>
                 [] reply.reason.kind = "Unknown" -> <<"stopped", Str(reply.reason.text)>>
    IN  /\ result.event.type = "event"
        /\ result.event.event = "stopped"
        /\ Describes(result.reply, Unwrap(result.event.body))

\* C23: for every signed slide s and unsigned address a, with wrap-around on
\* the address width, translate_remote_pc(a) = a - s and
\* local_to_remote(a) = a + s, each undoes the other, and neither fails.
SlideRoundTrips ==
  /\ result.op = "translate_remote_pc" =>
       /\ result.out.tag = "ok"
       /\ result.out.value = (result.pc - result.slide) % Pow2(WordBits)
       /\ result.back.tag = "ok"
       /\ result.back.value = result.pc
  /\ result.op = "local_to_remote" =>
       /\ result.out.tag = "ok"
       /\ result.out.value = (result.pc + result.slide) % Pow2(WordBits)
       /\ result.back.tag = "ok"
       /\ result.back.value = result.pc

\* C24: for every vmaddr_text v and remote text base b,
\* update_slide_from_remote_text_base(b) does not fail and sets a slide
\* under which local_to_remote(v) = b and translate_remote_pc(b + k) = v + k
\* for every offset k; v = 0x1000 and b = 0x3000 give the slide 0x2000 and
\* translate_remote_pc(0x3040) = 0x1040.
SlideTracksRemoteBase ==
  result.op = "update_slide" =>
    /\ result.out.tag = "ok"
    /\ result.remote = [tag |-> "ok", value |-> result.remote_text_base]
    /\ \A k \in Offsets :
         result.local[k] =
           [tag |-> "ok", value |-> (result.vmaddr_text + k) % Pow2(WordBits)]
    /\ (result.vmaddr_text = 4096 /\ result.remote_text_base = 12288) =>
         /\ result.out.value = 8192
         /\ result.local[64].value = 4160

\* C25: every range stored in a line index built by consume_line_program,
\* under any key, has low < high.
StoredRangesNotEmpty ==
  line_index # None =>
    \A key \in DOMAIN Unwrap(line_index) :
      \A i \in 1..Len(Unwrap(line_index)[key]) :
        Unwrap(line_index)[key][i].low < Unwrap(line_index)[key][i].high

\* What follows the last "/" of a path.
BaseNameOf(path) ==
  LET After(cut) == SubSeq(path, cut + 1, Len(path))
  IN  After(CHOOSE i \in 0..Len(path) :
              /\ i = 0 \/ path[i] = "/"
              /\ \A j \in (i + 1)..Len(path) : path[j] # "/")

\* Row i is a row of line `line` whose file is the path or has its basename.
RowOf(rows, i, path, line) ==
  /\ ~rows[i].end_sequence
  /\ rows[i].line = line
  /\ rows[i].file = path \/ BaseNameOf(rows[i].file) = BaseNameOf(path)

\* Row i is given a range by the row after it: a row at an address that is
\* not lower, or an end of sequence at a higher one.
RangeClosed(rows, i) ==
  /\ i < Len(rows)
  /\ IF rows[i + 1].end_sequence THEN rows[i + 1].address > rows[i].address
     ELSE rows[i + 1].address >= rows[i].address

\* C26, as stated: lookup(path, L) is non-empty if and only if some row
\* with line L that is not an end of sequence was observed whose file is
\* path or has the basename of path.
LookupFindsObservedRows ==
  result.op = "lookup" =>
    (result.out # <<>>
       <=> \E i \in 1..Len(result.rows) : RowOf(result.rows, i, result.file, result.line))

\* C26: lookup(path, L) is non-empty if and only if some row with line L
\* whose file is path or has the basename of path was given a range by the
\* row that followed it.
LookupFindsRowsWithRange ==
  result.op = "lookup" =>
    (result.out # <<>>
       <=> \E i \in 1..Len(result.rows) :
             RowOf(result.rows, i, result.file, result.line) /\ RangeClosed(result.rows, i))

\* A lookup by another directory's path finds the row of the basename,
\* while the last row of the program, of the same line, has no range.
LookupFindsRowsWitness ==
  /\ result.op = "lookup"
  /\ result.file = OtherFoo
  /\ result.out # <<>>
  /\ Len(result.rows) = 3
  /\ RowOf(result.rows, 3, result.file, result.line)
  /\ RowOf(result.rows, 1, result.file, result.line)
  /\ result.rows[1].file # result.rows[3].file

RECURSIVE IsSubsequence(_, _)
\* The elements of a are elements of b, in the order of a.
IsSubsequence(a, b) ==
  IF a = <<>> THEN TRUE
  ELSE IF b = <<>> THEN FALSE
  ELSE IF a[1] = b[1] THEN IsSubsequence(Tail(a), Tail(b))
  ELSE IsSubsequence(a, Tail(b))

\* C27: in a line index built by consume_line_program, the bucket of
\* (basename, L) holds every range of the bucket of (f, L) in the same
\* relative order when the basename of f is not f; a range of a path that
\* is a bare basename is stored once, so the bucket of a bare name has one
\* range for each row of that basename and line that was given a range.
BasenameBucketCovers ==
  (line_index # None /\ result.op \in {"consume_line_program", "lookup"}) =>
    LET Covered(index, rows) ==
          \A key \in DOMAIN index :
            IF BaseNameOf(key[1]) # key[1]
            THEN IsSubsequence(index[key], Bucket(index, BaseNameOf(key[1]), key[2]))
            ELSE Len(index[key]) =
                   Cardinality({i \in 1..Len(rows) :
                                  /\ RowOf(rows, i, key[1], key[2])
                                  /\ RangeClosed(rows, i)})
    IN  Covered(Unwrap(line_index), result.rows)

\* Two different ranges of /t/f.rs line 9, both also under f.rs.
BasenameBucketWitness ==
  /\ line_index # None
  /\ <<FooPath, 9>> \in DOMAIN Unwrap(line_index)
  /\ Len(Unwrap(line_index)[<<FooPath, 9>>]) = 2
  /\ Unwrap(line_index)[<<FooPath, 9>>][1] # Unwrap(line_index)[<<FooPath, 9>>][2]
  /\ Unwrap(line_index)[<<FooName, 9>>] = Unwrap(line_index)[<<FooPath, 9>>]

\* C28: lookup(file, line) returns the bucket of the exact key when that
\* bucket is not empty; otherwise the bucket of (basename, line) when file
\* is not its own basename; otherwise the empty sequence.  It returns for
\* every input and leaves the index as it was.
LookupPrefersExactKey ==
  [][(result'.op = "lookup" /\ result.op # "lookup") =>
       LET Gives(index, file, line, out) ==
             IF <<file, line>> \in DOMAIN index /\ index[<<file, line>>] # <<>>
             THEN out = index[<<file, line>>]
             ELSE IF BaseNameOf(file) # file /\ <<BaseNameOf(file), line>> \in DOMAIN index
             THEN out = index[<<BaseNameOf(file), line>>]
             ELSE out = <<>>
       IN  /\ line_index' = line_index
           /\ Gives(Unwrap(line_index), result'.file, result'.line, result'.out)]_vars

\* A lookup by /x/f.rs, which has no bucket, returns the bucket of f.rs.
LookupPrefersExactKeyWitness ==
  /\ result.op = "lookup"
  /\ result.file = OtherFoo
  /\ <<OtherFoo, result.line>> \notin DOMAIN Unwrap(line_index)
  /\ <<FooName, result.line>> \in DOMAIN Unwrap(line_index)
  /\ result.out = Unwrap(line_index)[<<FooName, result.line>>]
  /\ result.out # <<>>

\* The stream has a blank line: a line end with nothing but "\r" between it
\* and the line end before it, or the start of the stream.
HasBlankLine(stream) ==
  \E i \in 1..Len(stream) :
    /\ stream[i] = "\n"
    /\ \E j \in 0..(i - 1) :
         /\ j = 0 \/ stream[j] = "\n"
         /\ \A k \in (j + 1)..(i - 1) : stream[k] = "\r"

\* C29: read_dap_message reports a clean end of input only when the input
\* ends before any byte of a header block; an end of input after header
\* bytes and before the blank line is an error, with or without a
\* Content-Length line among the lines read.
CleanEndOnlyBeforeHeader ==
  result.op = "read_dap_message" =>
    /\ result.out.tag = "none" => result.stream = <<>>
    /\ (result.stream # <<>> /\ ~HasBlankLine(result.stream)) => result.out.tag = "err"

\* C30: every message written by write_dap_message is "Content-Length: ",
\* the number n, "\r\n\r\n" and exactly n bytes of JSON, and the bytes
\* written for a sequence of messages are split by read_dap_message into
\* the same sequence of JSON texts.
FramesSplitBack ==
  /\ result.op = "write_dap_message" =>
       \E n \in 0..Len(result.bytes) :
         /\ Len(result.json) = n
         /\ result.bytes = ContentLengthKey \o <<" ">> \o DecimalDigitsOf(n)
                             \o <<"\r", "\n", "\r", "\n">> \o result.json
  /\ result.op = "read_back" =>
       /\ result.out.payloads = result.jsons
       /\ result.out.tag = "none"

\* Three messages, one with a length of two digits and one whose text holds
\* a header line, were written and read back.
FramesSplitBackWitness ==
  /\ result.op = "read_back"
  /\ result.jsons = <<JsonHeaderText, JsonEmpty, JsonEvent>>
  /\ result.out.payloads = result.jsons
  /\ Len(stdout) > Len(JsonHeaderText) + Len(JsonEmpty) + Len(JsonEvent)

\* A setBreakpoints request whose arguments parse and name no source.path.
LacksSourcePath(msg) ==
  /\ msg.kind = "request"
  /\ msg.command = "setBreakpoints"
  /\ ParseSetBreakpointsArguments(msg.arguments).ok
  /\ ParseSetBreakpointsArguments(msg.arguments).val.path = None

\* The messages written for the message read last hold a failure response.
FailureWritten ==
  \E i \in 1..Len(stdout) :
    /\ stdout[i].cause = served
    /\ stdout[i].msg.type = "response"
    /\ ~stdout[i].msg.success

\* C31: a body that is not valid JSON or not a valid request envelope, a
\* setBreakpoints request without source.path, and a request with an unknown
\* command each produce a failure response, and main reads on.
BadInputGetsFailureResponse ==
  [][(/\ served' = served + 1
      /\ \/ lastReq'.kind = "malformed"
         \/ LacksSourcePath(lastReq')
         \/ lastReq'.kind = "request" /\ lastReq'.command \notin Commands)
       => FailureWritten' /\ pc' = "idle"]_vars

\* What parse_arguments returns for the arguments of a request.
ParsedArguments(msg) ==
  CASE msg.command = "launch" -> ParseLaunchArguments(msg.arguments)
    [] msg.command = "attach" -> ParseAttachArguments(msg.arguments)
    [] msg.command = "setBreakpoints" -> ParseSetBreakpointsArguments(msg.arguments)
    [] msg.command = "stackTrace" ->
         ParseThreadArguments(msg.arguments, "StackTraceArguments")
    [] msg.command = "scopes" -> ParseScopesArguments(msg.arguments)
    [] msg.command = "variables" -> ParseVariablesArguments(msg.arguments)
    [] msg.command \in ResumeCommands -> ParseThreadArguments(msg.arguments, "ThreadArguments")
    [] OTHER -> ParseOk(JNull)

\* C32: when the arguments of launch, attach, setBreakpoints, stackTrace,
\* scopes, variables, continue, next or stepIn fail to parse, the request
\* gets one failure response with the parse error text and nothing else
\* happens: the connection, the breakpoint table and the socket stay as they
\* were and no packet is sent.
ParseFailureOnlyAnswers ==
  [][(/\ served' = served + 1
      /\ lastReq'.kind = "request"
      /\ ~ParsedArguments(lastReq').ok)
       => /\ stdout' = Append(stdout,
                 [cause |-> served',
                  msg |-> [Response(lastReq'.seq, lastReq'.command, FALSE, None,
                                    Some(ParsedArguments(lastReq').err))
                             EXCEPT !.seq = next_seq]])
          /\ UNCHANGED <<backendVars, stubVars>>
          /\ wire' = <<>>
          /\ pc' = "idle"]_vars

\* An attach without arguments was refused while a connection was held.
ParseFailureWitness ==
  /\ Returned
  /\ lastReq.command = "attach"
  /\ lastReq.arguments = JNull
  /\ gdb_client # None
  /\ Len(Batch) = 1
  /\ Batch[1].message = Some("invalid type, expected struct AttachArguments")

\* The messages written for the message read last are one success response
\* to it.
SuccessWritten ==
  /\ Len(Batch) = 1
  /\ IsResponse(Batch[1], lastReq, TRUE)

\* C33: a threads request and a stackTrace request get a success response
\* in every Backend state and exchange no bytes with the stub, after a
\* failed launch as well; a disconnect is then answered and ends the
\* session.
ThreadsAndStackTraceAlwaysServed ==
  [][/\ (\/ Reads("threads")
         \/ Reads("stackTrace") /\ ParsedArguments(lastReq').ok)
        => /\ SuccessWritten'
           /\ pc' = "idle"
           /\ wire' = <<>>
           /\ UNCHANGED <<backendVars, stubVars>>
     /\ Reads("disconnect") => SuccessWritten' /\ pc' = "done"]_vars

\* C34: the debuggee binary is the program string of IOS_LLDB_DAP_CONFIG
\* when the variable is set, parses as JSON and has a string program field;
\* in every other case the current executable is used and startup does not
\* fail because of the variable.
ConfigNamesProgram ==
  result.op = "init_backend" =>
    LET Names(value) == value.ok /\ HasField(value.val, "program", "string")
    IN  /\ result.out.tag = "ok"
        /\ IF result.var # None /\ Names(config_from_str(result.var[1]))
           THEN result.out.program = config_from_str(result.var[1]).val.f["program"].v
           ELSE result.out.program = CurrentExe

\* C35: the breakpoint table and the RSP connection share one lifecycle: a
\* first request other than launch and attach leaves both absent, and after
\* disconnect the Backend holds neither a connection nor a table entry.
TableSharesConnectionLifecycle ==
  [][/\ (served = 0 /\ served' = 1 /\ ~Reads("launch") /\ ~Reads("attach"))
          => gdb_client' = None /\ DOMAIN breakpoints' = {}
     /\ Reads("disconnect")
          => gdb_client' = None /\ connected_port' = None /\ breakpoints' = <<>>]_vars

\* What a peer leaves out of the handshake: the acknowledgement of
\* qSupported, a reply to it, or a reply to the stop query.
AckMissing(bytes) == bytes = <<>> \/ bytes[1] # "+"
ReplyMissing(bytes) == ~Contains(bytes, <<"$">>)
PeerFailsHandshake(script) ==
  \/ AckMissing(script.after_qsupported)
  \/ ReplyMissing(script.after_qsupported)
  \/ ReplyMissing(script.after_question)

\* C36: connect returns an error whenever the peer fails a step of the
\* handshake (a missing or wrong acknowledgement, a missing reply), so such a
\* peer is never recorded as a usable connection.
HandshakeFailureIsError ==
  (result.op = "connect" /\ PeerFailsHandshake(result.script)) => ~result.out.ok

\* Row i is a row filed under the key: its line is the key's, and its file
\* is the key's or has the key's file as its last component.
RowOfKey(rows, i, key) ==
  /\ ~rows[i].end_sequence
  /\ rows[i].line = key[2]
  /\ rows[i].file = key[1] \/ file_name(rows[i].file) = Some(key[1])

\* C37: every range of an index built by consume_line_program runs from
\* the address of a row that is not an end of sequence to the address of the
\* very next row, and is stored under that row's file and line; so no range
\* spans an end of sequence, and a key holds no more ranges than it has rows
\* with a row after them (the final row of a program emits none).
RangesJoinAdjacentRows ==
  (line_index # None /\ result.op \in {"consume_line_program", "lookup"}) =>
    \A key \in DOMAIN Unwrap(line_index) :
      /\ \A k \in 1..Len(Unwrap(line_index)[key]) :
           \E i \in 1..(Len(result.rows) - 1) :
             /\ RowOfKey(result.rows, i, key)
             /\ result.rows[i].address = Unwrap(line_index)[key][k].low
             /\ result.rows[i + 1].address = Unwrap(line_index)[key][k].high
      /\ Len(Unwrap(line_index)[key])
           <= Cardinality({i \in 1..(Len(result.rows) - 1) : RowOfKey(result.rows, i, key)})

\* A row closed by an end of sequence has its range, and the row after
\* that end of sequence, the last of the program, has none.
RangesJoinAdjacentRowsWitness ==
  /\ result.op = "consume_line_program"
  /\ result.rows = <<Row(FooPath, 9, VmaddrText), EndSequence(VmaddrText + 4),
                     Row(FooPath, 42, VmaddrText)>>
  /\ Unwrap(line_index)[<<FooPath, 9>>] = <<AddressRange(VmaddrText, VmaddrText + 4)>>
  /\ <<FooPath, 42>> \notin DOMAIN Unwrap(line_index)

\* The addresses the breakpoint table declares: those of the ranges of its
\* lines > 0 under the line index.
TableAddresses ==
  UNION {{FormatHex(RemoteAddresses(Unwrap(line_index), path, breakpoints[path])[i]) :
            i \in 1..Len(RemoteAddresses(Unwrap(line_index), path, breakpoints[path]))} :
         path \in DOMAIN breakpoints}

\* C38: update_breakpoints writes Z0 packets only, never z0; so while a
\* connection lasts (no launch, attach or disconnect) every address the stub
\* was told to plant stays planted, also when a later setBreakpoints omits
\* its line.
PlantedOnlyGrows ==
  [][/\ ReadsUpdate => \A i \in 1..Len(wire') : StartsWith(wire'[i], <<"Z", "0", ",">>)
     /\ (gdb_client # None /\ ~Reads("launch") /\ ~Reads("attach") /\ ~Reads("disconnect"))
          => planted \subseteq planted']_vars

\* A setBreakpoints that omits planted lines has succeeded on a connection:
\* the stub holds the addresses of the table and at least one more.
PlantedOnlyGrowsWitness ==
  /\ Returned
  /\ lastReq.command = "setBreakpoints"
  /\ gdb_client # None
  /\ line_index # None
  /\ Len(Batch) = 1
  /\ Batch[1].success
  /\ FooPath \in DOMAIN breakpoints
  /\ TableAddresses \subseteq planted
  /\ TableAddresses # planted

\* C39: a launch or attach writes no breakpoint packet, and the stub of a
\* new connection holds no breakpoint whatever the table says; the stub is
\* told to plant an address only in a step that serves setBreakpoints.
ConnectPlantsNothing ==
  [][/\ (Reads("launch") \/ Reads("attach"))
          => /\ \A i \in 1..Len(wire') : ~StartsWith(wire'[i], <<"Z", "0", ",">>)
             /\ planted' \subseteq planted
             /\ stdout'[Len(stdout')].msg.success => planted' = {}
     /\ ~(planted' \subseteq planted) => ReadsUpdate]_vars

\* A launch or attach has connected while the table declares addresses,
\* and the stub holds none of them.
ConnectPlantsNothingWitness ==
  /\ Returned
  /\ lastReq.command \in {"launch", "attach"}
  /\ Len(Batch) = 1
  /\ Batch[1].success
  /\ gdb_client # None
  /\ line_index # None
  /\ TableAddresses # {}
  /\ planted = {}

\* C40: in every state the recorded port is set exactly when a client is
\* held and is that client's port, so the thread is named
\* "Stub Thread (<port>)" when connected and "Stub Thread" otherwise; and a
\* launch or attach that fails leaves the client and the port as they were.
PortTracksClient ==
  /\ [](/\ connected_port = None <=> gdb_client = None
        /\ gdb_client # None => Unwrap(connected_port) = Unwrap(gdb_client).port
        /\ threads[1].name = IF gdb_client = None THEN "Stub Thread"
                             ELSE "Stub Thread (" \o ToString(Unwrap(gdb_client).port) \o ")")
  /\ [][((Reads("launch") \/ Reads("attach")) /\ ~stdout'[Len(stdout')].msg.success)
          => UNCHANGED <<connected_port, gdb_client>>]_vars

\* The threads request of a session that attached to the other port after a
\* launch is answered with that port in the name.
PortTracksClientWitness ==
  /\ Returned
  /\ lastReq.command = "threads"
  /\ served = 3
  /\ gdb_client # None
  /\ Unwrap(gdb_client).port = OtherPort
  /\ Len(Batch) = 1
  /\ Batch[1].success
  /\ Unwrap(Batch[1].body).threads[1].name = "Stub Thread (12346)"

=============================================================================
